---- MODULE Spec2Model ----
(***************************************************************************)
(* Matching engine of the exchange (src/engine/src/trading_engine.rs):     *)
(* the in-memory balances, order books, tickers and counters of            *)
(* TradingEngine, and one action per request handler (process_order,       *)
(* process_cancel_order, process_deposit, process_withdrawal).             *)
(***************************************************************************)
EXTENDS Integers, Sequences, FiniteSets, TLC

\* ------------------------------------------------------------------ bounds
MaxPrice    == 3    \* limit prices are drawn from 1..MaxPrice
MaxQty      == 2    \* order quantities are drawn from 1..MaxQty
MaxOrders   == 4    \* number of orders the engine accepts in a run
LoadedQuote == 5    \* QUOTE of u1 in the balance snapshot loaded at start
LoadedBase  == 2    \* BASE of u2 in the balance snapshot loaded at start
MaxI64      == 32767  \* stands for i64::MAX (TLC integers are 32 bit wide)
\* the single-level runs (SpecFifo): more orders, one price, one quantity
MaxFifoOrders == 5
FifoQuote   == 2
FifoBase    == 3
\* the runs with deposits and withdrawals (SpecLedger)
MaxLedgerAmount == 2   \* the amount of every deposit and withdrawal
MaxLedgerSupply == 2   \* cap on the net amount deposited of one token
MaxLedgerPrice  == 2
MaxLedgerOrders == 3
MaxStream == 3
MaxRestarts == 1
StreamQuote == 1
StreamBase == 1
MaxRestartSupply == 2
MaxRestartOrders == 2
MaxDbOrders == 2      \* order ids of the persistence events
MaxDbQuantity == 2
MaxDbTrades == 2      \* trade ids of the persistence events
MaxDbRows == 3        \* cap on the rows of the trades table
MaxEventOrders == 3   \* orders of the event history
MaxClients == 3       \* WebSocket clients that register
MaxDbQueue == 6       \* no request is taken once the engine made this many events

\* --------------------------------------------------------------- constants
snapshot_interval == 10

Users   == {"u1", "u2"}
Tokens  == {"BASE", "QUOTE"}
None    == <<>>          \* Option::None
Some(x) == <<x>>         \* Option::Some(x)
Unwrap(o) == o[1]
NoToken == "none"

\* TradingEngine.markets after load_markets: one active market BASE/QUOTE.
\* load_markets: m1 takes every positive price and quantity, m2 trades the
\* same pair with a coarser tick and a larger minimum order
markets ==
    [m \in {"m1", "m2"} |->
        [base_currency  |-> [id |-> "BASE",  decimals |-> 0],
         quote_currency |-> [id |-> "QUOTE", decimals |-> 0],
         min_order_size |-> IF m = "m1" THEN 1 ELSE 2,
         tick_size      |-> IF m = "m1" THEN 1 ELSE 2]]

Prices     == 1..MaxPrice
Quantities == 1..MaxQty

\* ----------------------------------------------------------------- helpers
EmptyMap == [x \in {} |-> 0]

\* HashMap / BTreeMap insert
Put(f, k, v) == [x \in (DOMAIN f) \cup {k} |-> IF x = k THEN v ELSE f[x]]

Min(a, b) == IF a <= b THEN a ELSE b

RECURSIVE Pow10(_)
Pow10(n) == IF n <= 0 THEN 1 ELSE 10 * Pow10(n - 1)

RECURSIVE SumOver(_, _)
SumOver(S, f) ==
    IF S = {} THEN 0
    ELSE LET x == CHOOSE y \in S : TRUE IN f[x] + SumOver(S \ {x}, f)

\* keys of a BTreeMap in ascending order
RECURSIVE Ascending(_)
Ascending(S) ==
    IF S = {} THEN <<>>
    ELSE LET lo == CHOOSE x \in S : \A y \in S : x <= y
         IN <<lo>> \o Ascending(S \ {lo})

RECURSIVE Descending(_)
Descending(S) ==
    IF S = {} THEN <<>>
    ELSE LET hi == CHOOSE x \in S : \A y \in S : x >= y
         IN <<hi>> \o Descending(S \ {hi})

\* ------------------------------------------------------------------- state
VARIABLES
    balances,                   \* user -> token -> [available, locked]
    orderbooks,                 \* market -> [bids, asks], price -> queue
    tickers,                    \* market -> MarketTicker
    depth_seq,                  \* market -> u64
    ticker_seq,                 \* market -> u64
    operations_since_snapshot,  \* u64
    next_order_id,              \* the next fresh order id (Uuid::new_v4)
    net_deposited,              \* history: token -> deposits - withdrawals
    rested,                     \* history: order id -> where it rested, fate
    last,                       \* the request just handled and its outputs
    stream                      \* the request stream, its consumer group and
                                \* the position of the processing loop

vars == <<balances, orderbooks, tickers, depth_seq, ticker_seq,
          operations_since_snapshot, next_order_id, net_deposited, rested,
          last, stream>>

engine == <<balances, orderbooks, tickers, depth_seq, ticker_seq,
            operations_since_snapshot>>

\* the engine's fields as one record, threaded through a handler
Engine ==
    [balances |-> balances, orderbooks |-> orderbooks, tickers |-> tickers,
     depth_seq |-> depth_seq, ticker_seq |-> ticker_seq,
     operations_since_snapshot |-> operations_since_snapshot,
     events |-> <<>>, snapshots |-> 0, short_settlements |-> 0]

\* ---------------------------------------------------------------- balances
ZeroBalance == [available |-> 0, locked |-> 0]

TokenBalanceOf(bal, u, t) ==
    IF u \in DOMAIN bal /\ t \in DOMAIN bal[u] THEN bal[u][t] ELSE ZeroBalance

\* update_user_balance: creates the entries, adds the deltas unchecked and
\* appends a balance_updated event to db_update_queue
store_balance(e, user_id, token_id, ntb) ==
    [e EXCEPT
       !.balances = Put(@, user_id,
                        Put(IF user_id \in DOMAIN @ THEN @[user_id]
                            ELSE EmptyMap, token_id, ntb)),
       !.events   = Append(@, [type |-> "balance_updated",
                                user_id |-> user_id, token_id |-> token_id,
                                available |-> ntb.available,
                                locked |-> ntb.locked])]

\* `+=` on i64 in a build without overflow checks: the sum wraps around
wrapping_add(a, b) ==
    ((a + b + MaxI64 + 1) % (2 * (MaxI64 + 1))) - (MaxI64 + 1)

update_user_balance(e, user_id, token_id, amount_delta, locked_delta) ==
    store_balance(e, user_id, token_id,
        [available |-> wrapping_add(
                         TokenBalanceOf(e.balances, user_id, token_id).available,
                         amount_delta),
         locked    |-> wrapping_add(
                         TokenBalanceOf(e.balances, user_id, token_id).locked,
                         locked_delta)])

free_amount(e, user, token) ==
    IF user \in DOMAIN e.balances /\ token \in DOMAIN e.balances[user]
    THEN e.balances[user][token].available ELSE 0

\* lock: [ok, e]
lock(e, user, token, amount) ==
    IF amount <= 0 THEN [ok |-> TRUE, e |-> e]
    ELSE IF free_amount(e, user, token) < amount THEN [ok |-> FALSE, e |-> e]
    ELSE [ok |-> TRUE,
          e |-> update_user_balance(e, user, token, -amount, amount)]

unlock(e, user, token, amount) ==
    IF amount <= 0 THEN e
    ELSE update_user_balance(e, user, token, amount, -amount)

\* the snapshot trigger at the end of a state-changing handler
count_operation(e) ==
    IF e.operations_since_snapshot + 1 >= snapshot_interval
    THEN [e EXCEPT !.operations_since_snapshot = 0, !.snapshots = @ + 1]
    ELSE [e EXCEPT !.operations_since_snapshot = @ + 1]

\* ------------------------------------------------------- deposit, withdraw
\* `entry(..).or_insert_with(..)`: the entries exist afterwards
ensure_entry(e, user_id, token_id) ==
    [e EXCEPT !.balances =
        Put(@, user_id,
            Put(IF user_id \in DOMAIN @ THEN @[user_id] ELSE EmptyMap,
                token_id, TokenBalanceOf(@, user_id, token_id)))]

BalanceReply(e, request, success) ==
    [e |-> e, success |-> success,
     new_balance |-> IF success
                     THEN e.balances[request.user_id][request.token_id].available
                     ELSE 0]

process_deposit(e, request) ==
    BalanceReply(
        count_operation(
            update_user_balance(
                ensure_entry(e, request.user_id, request.token_id),
                request.user_id, request.token_id, request.amount, 0)),
        request, TRUE)

\* a withdrawal that counts the locked funds as withdrawable
process_withdrawal_of_locked(e, request) ==
    IF /\ request.user_id \in DOMAIN e.balances
       /\ request.token_id \in DOMAIN e.balances[request.user_id]
       /\ e.balances[request.user_id][request.token_id].available
            + e.balances[request.user_id][request.token_id].locked
            >= request.amount
    THEN BalanceReply(
            count_operation(
                update_user_balance(e, request.user_id, request.token_id,
                                    -request.amount, 0)),
            request, TRUE)
    ELSE BalanceReply(e, request, FALSE)

process_withdrawal(e, request) ==
    IF /\ request.user_id \in DOMAIN e.balances
       /\ request.token_id \in DOMAIN e.balances[request.user_id]
       /\ e.balances[request.user_id][request.token_id].available
            >= request.amount
    THEN BalanceReply(
            count_operation(
                update_user_balance(e, request.user_id, request.token_id,
                                    -request.amount, 0)),
            request, TRUE)
    ELSE BalanceReply(e, request, FALSE)

\* ------------------------------------------------------------- arithmetic
\* safe_multiply_divide: price * quantity / 10^decimals in wide arithmetic,
\* truncated; an error when the result does not fit the signed 64-bit range
safe_multiply_divide(price, quantity, decimals) ==
    IF price < 0 \/ quantity < 0 THEN [ok |-> FALSE, val |-> 0]
    ELSE IF decimals > 18 THEN [ok |-> FALSE, val |-> 0]
    ELSE LET result == (price * quantity) \div Pow10(decimals)
         IN IF result > MaxI64 THEN [ok |-> FALSE, val |-> 0]
            ELSE [ok |-> TRUE, val |-> result]

\* ------------------------------------------------------------------ orders
create_order_from_request(req, id) ==
    [id |-> id, user_id |-> req.user_id, market_id |-> req.market_id,
     order_type |-> IF req.order_type = "Buy" THEN "Buy" ELSE "Sell",
     order_kind |-> IF req.order_kind = "Market" THEN "Market" ELSE "Limit",
     price |-> req.price, quantity |-> req.quantity,
     filled_quantity |-> 0, status |-> "Pending"]

EmptyBook == [bids |-> EmptyMap, asks |-> EmptyMap]

Remaining(o) == o.quantity - o.filled_quantity

RECURSIVE OpenQuantity(_)
OpenQuantity(queue) ==
    IF queue = <<>> THEN 0
    ELSE Remaining(Head(queue)) + OpenQuantity(Tail(queue))

\* the walk over the asks of estimate_market_buy_price; st = [remaining,
\* total_cost, ok]
RECURSIVE estimate_walk(_, _, _, _)
estimate_walk(asks, prices, decimals, st) ==
    IF prices = <<>> \/ st.remaining <= 0 \/ ~st.ok THEN st
    ELSE LET price == Head(prices)
             available_at_price == OpenQuantity(asks[price])
             quantity_to_buy == Min(st.remaining, available_at_price)
             cost == safe_multiply_divide(price, quantity_to_buy, decimals)
         IN IF ~cost.ok THEN [st EXCEPT !.ok = FALSE]
            ELSE estimate_walk(asks, Tail(prices), decimals,
                    [st EXCEPT !.total_cost = @ + cost.val,
                               !.remaining = @ - quantity_to_buy])

\* the result of estimate_market_buy_price after the walk: None, the highest
\* ask plus 10% when the book cannot cover the quantity, else the average
estimate_result(asks, decimals, quantity, st) ==
    IF ~st.ok THEN None
    ELSE IF st.remaining > 0
    THEN IF DOMAIN asks = {} THEN None
         ELSE Some((CHOOSE p \in DOMAIN asks : \A q \in DOMAIN asks : q <= p)
                   + ((CHOOSE p \in DOMAIN asks : \A q \in DOMAIN asks : q <= p)
                      \div 10))
    ELSE IF decimals > 18 THEN None
    ELSE IF (st.total_cost * Pow10(decimals)) \div quantity > MaxI64
    THEN None
    ELSE Some((st.total_cost * Pow10(decimals)) \div quantity)

estimate_over(asks, decimals, quantity) ==
    estimate_result(asks, decimals, quantity,
        estimate_walk(asks, Ascending(DOMAIN asks), decimals,
            [remaining |-> quantity, total_cost |-> 0, ok |-> TRUE]))

estimate_market_buy_price(e, market_id, quantity) ==
    IF market_id \notin DOMAIN e.orderbooks \/ market_id \notin DOMAIN markets
    THEN None
    ELSE estimate_over(e.orderbooks[market_id].asks,
                       markets[market_id].base_currency.decimals, quantity)

\* the results of validate_and_lock_order_balance: [ok, msg, e, reservation]
validation_error(e, msg) ==
    [ok |-> FALSE, msg |-> msg, e |-> e,
     reservation |-> [token_id |-> NoToken, amount |-> 0]]

locked_result(e, l, token, amount) ==
    IF ~l.ok THEN validation_error(e, "insufficient free balance to lock")
    ELSE [ok |-> TRUE, msg |-> "", e |-> l.e,
          reservation |-> [token_id |-> token, amount |-> amount]]

\* a variant of reserve that moves the amount to locked before it checks
\* the balance
reserve_before_check(e, user_id, token, amount) ==
    IF free_amount(e, user_id, token) < amount
    THEN validation_error(
            update_user_balance(e, user_id, token, -amount, amount),
            "Insufficient balance")
    ELSE locked_result(e, lock(e, user_id, token, amount), token, amount)

\* the balance check and the lock of the required amount
reserve(e, user_id, token, amount) ==
    IF free_amount(e, user_id, token) < amount
    THEN validation_error(e, "Insufficient balance")
    ELSE locked_result(e, lock(e, user_id, token, amount), token, amount)

reserve_notional(e, order, market, r) ==
    IF ~r.ok THEN validation_error(e, "Result exceeds i64::MAX")
    ELSE reserve(e, order.user_id, market.quote_currency.id, r.val)

reserve_market_buy(e, order, market, est) ==
    IF est = None THEN validation_error(e, "No liquidity available")
    ELSE reserve_notional(e, order, market,
            safe_multiply_divide(Unwrap(est), order.quantity,
                                 market.base_currency.decimals))

validate_and_lock_order_balance(e, order) ==
    IF order.user_id \notin DOMAIN e.balances
    THEN validation_error(e, "No balance found for user")
    ELSE IF order.order_type = "Buy"
    THEN IF order.order_kind = "Limit"
         THEN IF order.price = None
              THEN validation_error(e, "Limit buy requires price")
              ELSE reserve_notional(e, order, markets[order.market_id],
                      safe_multiply_divide(Unwrap(order.price), order.quantity,
                          markets[order.market_id].base_currency.decimals))
         ELSE reserve_market_buy(e, order, markets[order.market_id],
                 estimate_market_buy_price(e, order.market_id, order.quantity))
    ELSE reserve(e, order.user_id,
                 markets[order.market_id].base_currency.id, order.quantity)

\* ---------------------------------------------------------------- matching
\* The state of a matching loop:
\*   side       the opposite side of the book (price -> queue)
\*   remaining  remaining_quantity of the taker
\*   trades, matched_orders, prices_to_remove   as in the code
\*   moments    history: for each trade the maker as it was popped and the
\*              opposite side as it stood when the trade was made
NewTrade(order, matching_order, price, trade_quantity) ==
    [buyer_order_id  |-> IF order.order_type = "Buy"
                         THEN order.id ELSE matching_order.id,
     seller_order_id |-> IF order.order_type = "Sell"
                         THEN order.id ELSE matching_order.id,
     buyer_user_id   |-> IF order.order_type = "Buy"
                         THEN order.user_id ELSE matching_order.user_id,
     seller_user_id  |-> IF order.order_type = "Sell"
                         THEN order.user_id ELSE matching_order.user_id,
     price |-> price, quantity |-> trade_quantity]

\* a variant of maker_is_filled with a strict comparison: a maker filled to
\* its quantity would go back to the head of its queue
maker_is_overfilled(matching_order) ==
    matching_order.filled_quantity > matching_order.quantity

\* `if matching_order.filled_quantity >= matching_order.quantity`
maker_is_filled(matching_order) ==
    matching_order.filled_quantity >= matching_order.quantity

\* the maker after `matching_order.filled_quantity += trade_quantity`
add_fill(matching_order, trade_quantity) ==
    [matching_order EXCEPT !.filled_quantity = @ + trade_quantity]

\* the maker with its new status
fill_maker(matching_order) ==
    [matching_order EXCEPT
        !.status = IF maker_is_filled(matching_order)
                   THEN "Filled" ELSE "PartiallyFilled"]

\* one trade of the loop body: the popped maker, the trade, the bookkeeping
trade_with(order, price, st, matching_order, trade_quantity) ==
    [st EXCEPT
        !.side[price] = Tail(@),
        !.trades = Append(@, NewTrade(order, matching_order, price,
                                      trade_quantity)),
        !.moments = Append(@, [maker |-> matching_order, level |-> price,
                               side |-> st.side]),
        !.remaining = @ - trade_quantity,
        !.matched_orders =
            Append(@, fill_maker(add_fill(matching_order, trade_quantity)))]

\* `while let Some(mut matching_order) = order_queue.pop_front()`: a break
\* on remaining_quantity == 0 comes after the pop and does not put the
\* popped order back
RECURSIVE match_queue(_, _, _)
after_trade(order, price, st, updated) ==
    IF maker_is_filled(updated)
    THEN match_queue(order, price, st)
    ELSE [st EXCEPT !.side[price] = <<updated>> \o @]

match_queue(order, price, st) ==
    IF st.side[price] = <<>> THEN st
    ELSE IF st.remaining = 0
    THEN [st EXCEPT !.side[price] = Tail(@)]
    ELSE after_trade(order, price,
            trade_with(order, price, st, Head(st.side[price]),
                       Min(st.remaining, Remaining(Head(st.side[price])))),
            fill_maker(add_fill(Head(st.side[price]),
                       Min(st.remaining, Remaining(Head(st.side[price]))))))

\* `if order_queue.is_empty() { prices_to_remove.push(price) }`
note_empty_level(price, st) ==
    IF st.side[price] = <<>>
    THEN [st EXCEPT !.prices_to_remove = @ \cup {price}]
    ELSE st

\* `for price in price_levels`
RECURSIVE match_levels(_, _, _)
match_levels(order, price_levels, st) ==
    IF price_levels = <<>> \/ st.remaining = 0 THEN st
    ELSE match_levels(order, Tail(price_levels),
            IF Head(price_levels) \in DOMAIN st.side
            THEN note_empty_level(Head(price_levels),
                    match_queue(order, Head(price_levels), st))
            ELSE st)

\* `for price in prices_to_remove { opposite_side.remove(&price) }`
remove_prices(st) ==
    [st EXCEPT !.side = [p \in (DOMAIN @) \ st.prices_to_remove |-> @[p]]]

\* the loop and the clean-up of the emptied price levels
match_against(order, opposite_side, price_levels) ==
    remove_prices(
        match_levels(order, price_levels,
            [side |-> opposite_side, remaining |-> order.quantity,
             trades |-> <<>>, moments |-> <<>>,
             matched_orders |-> <<>>, prices_to_remove |-> {}]))

OppositeSide(book, order) ==
    IF order.order_type = "Buy" THEN book.asks ELSE book.bids

WithOppositeSide(book, order, side) ==
    IF order.order_type = "Buy" THEN [book EXCEPT !.asks = side]
    ELSE [book EXCEPT !.bids = side]

\* a variant of market_price_levels that walks the worst level first
market_price_levels_reversed(order, opposite_side) ==
    IF order.order_type = "Buy"
    THEN Descending(DOMAIN opposite_side)
    ELSE Ascending(DOMAIN opposite_side)

\* the order in which a Market order walks the opposite side
market_price_levels(order, opposite_side) ==
    IF order.order_type = "Buy"
    THEN Ascending(DOMAIN opposite_side)
    ELSE Descending(DOMAIN opposite_side)

\* what the execute functions leave: [e, order, trades, matched_orders,
\* moments]; unfilled_status is the status of an order with no fill
executed_order(order, filled_quantity, unfilled_status) ==
    [order EXCEPT
        !.filled_quantity = filled_quantity,
        !.status = IF filled_quantity >= order.quantity THEN "Filled"
                   ELSE IF filled_quantity > 0 THEN "PartiallyFilled"
                   ELSE unfilled_status]

Executed(e, order, book, st, unfilled_status) ==
    [e |-> [e EXCEPT !.orderbooks[order.market_id] = book],
     order |-> executed_order(order, order.quantity - st.remaining,
                              unfilled_status),
     trades |-> st.trades, matched_orders |-> st.matched_orders,
     moments |-> st.moments]

market_executed(e, order, st) ==
    Executed(e, order,
             WithOppositeSide(e.orderbooks[order.market_id], order, st.side),
             st, "Cancelled")

execute_market_order(e, order) ==
    market_executed(e, order,
        match_against(order,
            OppositeSide(e.orderbooks[order.market_id], order),
            market_price_levels(order,
                OppositeSide(e.orderbooks[order.market_id], order))))

\* a variant of matching_prices without the limit: all levels, best first
matching_prices_unbounded(order, opposite_side) ==
    IF order.order_type = "Buy"
    THEN Ascending(DOMAIN opposite_side)
    ELSE Descending(DOMAIN opposite_side)

\* the prices a Limit order may trade at, best first
matching_prices(order, opposite_side) ==
    IF order.order_type = "Buy"
    THEN Ascending({p \in DOMAIN opposite_side : p <= Unwrap(order.price)})
    ELSE Descending({p \in DOMAIN opposite_side : p >= Unwrap(order.price)})

\* the remainder of a Limit order: a new Pending order of quantity
\* remaining_quantity and filled_quantity 0
remaining_order(order, remaining_quantity) ==
    [order EXCEPT !.quantity = remaining_quantity, !.filled_quantity = 0,
                  !.status = "Pending"]

\* `same_side.entry(order_price).or_insert_with(VecDeque::new).push_back(..)`
rest_on(same_side, order_price, resting) ==
    Put(same_side, order_price,
        Append(IF order_price \in DOMAIN same_side
               THEN same_side[order_price] ELSE <<>>, resting))

rest_remainder(book, order, remaining_quantity) ==
    IF remaining_quantity <= 0 THEN book
    ELSE IF order.order_type = "Buy"
    THEN [book EXCEPT !.bids = rest_on(@, Unwrap(order.price),
                                  remaining_order(order, remaining_quantity))]
    ELSE [book EXCEPT !.asks = rest_on(@, Unwrap(order.price),
                                  remaining_order(order, remaining_quantity))]

limit_executed(e, order, st) ==
    Executed(e, order,
             rest_remainder(
                WithOppositeSide(e.orderbooks[order.market_id], order, st.side),
                order, st.remaining),
             st, "Pending")

\* a variant of execute_limit_order that rests the order without matching
execute_limit_order_unmatched(e, order) ==
    limit_executed(e, order,
        match_against(order,
            OppositeSide(e.orderbooks[order.market_id], order), <<>>))

execute_limit_order(e, order) ==
    limit_executed(e, order,
        match_against(order,
            OppositeSide(e.orderbooks[order.market_id], order),
            matching_prices(order,
                OppositeSide(e.orderbooks[order.market_id], order))))

\* -------------------------------------------------------------- settlement
\* update_balances_from_trades, one trade: the amount taken from locked is
\* capped at what is locked, the counterparty is credited in full
\* history: the settlements of this request that found less locked than the
\* trade takes (`locked_now.min(...)` took the smaller amount)
note_short(e, locked_now, owed) ==
    IF locked_now < owed
    THEN [e EXCEPT !.short_settlements = @ + 1]
    ELSE e

settle_buyer(e, trade, market_info, cost) ==
    update_user_balance(
        update_user_balance(
            note_short(e, TokenBalanceOf(e.balances, trade.buyer_user_id,
                                market_info.quote_currency.id).locked, cost),
            trade.buyer_user_id,
            market_info.quote_currency.id, 0,
            -Min(TokenBalanceOf(e.balances, trade.buyer_user_id,
                                market_info.quote_currency.id).locked, cost)),
        trade.buyer_user_id, market_info.base_currency.id, trade.quantity, 0)

settle_seller(e, trade, market_info, cost) ==
    update_user_balance(
        update_user_balance(
            note_short(e, TokenBalanceOf(e.balances, trade.seller_user_id,
                                market_info.base_currency.id).locked,
                       trade.quantity),
            trade.seller_user_id,
            market_info.base_currency.id, 0,
            -Min(TokenBalanceOf(e.balances, trade.seller_user_id,
                                market_info.base_currency.id).locked,
                 trade.quantity)),
        trade.seller_user_id, market_info.quote_currency.id, cost, 0)

settle_trade(e, trade, market_info) ==
    settle_seller(
        settle_buyer(e, trade, market_info,
            safe_multiply_divide(trade.price, trade.quantity,
                                 market_info.base_currency.decimals).val),
        trade, market_info,
        safe_multiply_divide(trade.price, trade.quantity,
                             market_info.base_currency.decimals).val)

RECURSIVE update_balances_from_trades(_, _, _)
update_balances_from_trades(e, trades, market_info) ==
    IF trades = <<>> THEN e
    ELSE update_balances_from_trades(settle_trade(e, Head(trades), market_info),
                                     Tail(trades), market_info)

NewTicker == [last_price |-> 0, volume_24h |-> 0, high_24h |-> 0,
              low_24h |-> 0]

RECURSIVE TradedQuantity(_)
TradedQuantity(trades) ==
    IF trades = <<>> THEN 0
    ELSE Head(trades).quantity + TradedQuantity(Tail(trades))

updated_ticker(ticker, last_trade, volume) ==
    [last_price |-> last_trade.price,
     high_24h |-> IF ticker.high_24h = 0 \/ last_trade.price > ticker.high_24h
                  THEN last_trade.price ELSE ticker.high_24h,
     low_24h  |-> IF ticker.low_24h = 0 \/ last_trade.price < ticker.low_24h
                  THEN last_trade.price ELSE ticker.low_24h,
     volume_24h |-> ticker.volume_24h + volume]

update_ticker_from_trades(e, trades, market_id) ==
    IF trades = <<>> THEN e
    ELSE [e EXCEPT !.tickers =
            Put(@, market_id,
                updated_ticker(IF market_id \in DOMAIN @ THEN @[market_id]
                               ELSE NewTicker,
                               trades[Len(trades)], TradedQuantity(trades)))]

\* match_order: creates the book on first use, matches, settles
ensure_orderbook(e, market_id) ==
    IF market_id \in DOMAIN e.orderbooks THEN e
    ELSE [e EXCEPT !.orderbooks = Put(@, market_id, EmptyBook)]

settle_matched(r, order) ==
    IF r.trades = <<>> THEN r
    ELSE [r EXCEPT !.e =
            update_ticker_from_trades(
                update_balances_from_trades(@, r.trades,
                                            markets[order.market_id]),
                r.trades, order.market_id)]

match_order(e, order) ==
    settle_matched(
        IF order.order_kind = "Market"
        THEN execute_market_order(ensure_orderbook(e, order.market_id), order)
        ELSE execute_limit_order(ensure_orderbook(e, order.market_id), order),
        order)

\* ------------------------------------------------------------ publications
publish_depth(e, market_id) ==
    IF market_id \in DOMAIN e.orderbooks /\ market_id \in DOMAIN markets
    THEN [e EXCEPT !.depth_seq =
            Put(@, market_id,
                IF market_id \in DOMAIN @ THEN @[market_id] + 1 ELSE 1)]
    ELSE e

publish_ticker(e, market_id) ==
    IF market_id \in DOMAIN e.tickers /\ market_id \in DOMAIN markets
    THEN [e EXCEPT !.ticker_seq =
            Put(@, market_id,
                IF market_id \in DOMAIN @ THEN @[market_id] + 1 ELSE 1)]
    ELSE e

OrderEvent(type, order) ==
    [type |-> type, id |-> order.id, quantity |-> order.quantity,
     filled_quantity |-> order.filled_quantity, status |-> order.status]

queue_order_created(e, order) ==
    [e EXCEPT !.events = Append(@, OrderEvent("order_created", order))]

queue_db_updates(e, order, matched_orders, trades) ==
    [e EXCEPT !.events =
        (Append(@, OrderEvent("order_updated", order))
         \o [i \in 1..Len(matched_orders) |->
                OrderEvent("order_updated", matched_orders[i])])
         \o [i \in 1..Len(trades) |->
                [type |-> "trade_executed", trade |-> trades[i]]]]

\* ----------------------------------------------------------- process_order
NoReservation == [token_id |-> NoToken, amount |-> 0]

\* what a handler leaves: the engine and the reply
Rejected(e, message) ==
    [e |-> e, success |-> FALSE, status |-> "REJECTED", message |-> message,
     order |-> None, reservation |-> NoReservation, trades |-> <<>>,
     moments |-> <<>>, matched_orders |-> <<>>]

\* the early returns of process_order
reject_order(e, message) == Rejected(e, message)

RECURSIVE executed_cost(_, _)
executed_cost(trades, decimals) ==
    IF trades = <<>> THEN 0
    ELSE (IF safe_multiply_divide(Head(trades).price, Head(trades).quantity,
                                  decimals).ok
          THEN safe_multiply_divide(Head(trades).price, Head(trades).quantity,
                                    decimals).val
          ELSE 0)
         + executed_cost(Tail(trades), decimals)

\* `reservation.amount.saturating_sub(executed_cost)`, unlocked when positive
refund_unused_quote(e, updated_order, reservation, market, refund) ==
    IF reservation.token_id = market.quote_currency.id /\ refund > 0
    THEN unlock(e, updated_order.user_id, reservation.token_id, refund)
    ELSE e

refund_unsold_base(e, updated_order, reservation, market, remaining) ==
    IF remaining > 0 /\ reservation.token_id = market.base_currency.id
    THEN unlock(e, updated_order.user_id, reservation.token_id, remaining)
    ELSE e

\* the refund of a Market order's unused reservation
refund_market_order(e, updated_order, trades, reservation) ==
    IF updated_order.order_kind # "Market" THEN e
    ELSE IF updated_order.order_type = "Buy"
    THEN refund_unused_quote(e, updated_order, reservation,
            markets[updated_order.market_id],
            reservation.amount
              - executed_cost(trades,
                  markets[updated_order.market_id].base_currency.decimals))
    ELSE refund_unsold_base(e, updated_order, reservation,
            markets[updated_order.market_id], Remaining(updated_order))

publish_after_match(e, market_id, trades) ==
    IF trades # <<>>
    THEN publish_ticker(publish_depth(publish_depth(e, market_id), market_id),
                        market_id)
    ELSE publish_depth(e, market_id)

order_reply(e, m, reservation) ==
    [e |-> e, success |-> TRUE,
     status |-> IF m.order.filled_quantity = m.order.quantity
                THEN "FILLED" ELSE "PARTIALLY_FILLED",
     message |-> "Order processed successfully",
     order |-> Some(m.order), reservation |-> reservation,
     trades |-> m.trades, moments |-> m.moments,
     matched_orders |-> m.matched_orders]

\* process_order after the matching: refund, publications, events, counter
complete_order(m, reservation) ==
    order_reply(
        count_operation(
            queue_db_updates(
                publish_after_match(
                    refund_market_order(m.e, m.order, m.trades, reservation),
                    m.order.market_id, m.trades),
                m.order, m.matched_orders, m.trades)),
        m, reservation)

\* `order.price.expect("Limit order must have a price")` in
\* execute_limit_order: the engine panics with the funds locked, the
\* order_created event queued and the orderbook created; no reply is made.
\* The request sets of the specifications hold no such order.
panicked_order(e, reservation) ==
    [e |-> e, success |-> FALSE, status |-> "PANICKED",
     message |-> "Limit order must have a price", order |-> None,
     reservation |-> reservation, trades |-> <<>>, moments |-> <<>>,
     matched_orders |-> <<>>]

\* process_order after validate_and_lock_order_balance
admit_order(order, v) ==
    IF ~v.ok THEN reject_order(v.e, v.msg)
    ELSE IF order.order_kind = "Limit" /\ order.price = None
    THEN panicked_order(
            ensure_orderbook(queue_order_created(v.e, order),
                             order.market_id),
            v.reservation)
    ELSE complete_order(match_order(queue_order_created(v.e, order), order),
                        v.reservation)

process_created(e, order) ==
    IF order.market_id \notin DOMAIN markets
    THEN reject_order(e, "Market not found")
    ELSE admit_order(order, validate_and_lock_order_balance(e, order))

process_order(e, order_request, id) ==
    process_created(e, create_order_from_request(order_request, id))

\* ---------------------------------------------------- process_cancel_order
RemoveAt(queue, pos) ==
    SubSeq(queue, 1, pos - 1) \o SubSeq(queue, pos + 1, Len(queue))

\* `queue.iter().position(|o| o.id == order_id)`, 0 for None
Position(queue, order_id) ==
    IF \E i \in 1..Len(queue) : queue[i].id = order_id
    THEN CHOOSE i \in 1..Len(queue) :
            /\ queue[i].id = order_id
            /\ \A j \in 1..(i - 1) : queue[j].id # order_id
    ELSE 0

RemoveAtPrice(side, p, pos) ==
    [found |-> TRUE, order |-> side[p][pos],
     side |-> [side EXCEPT ![p] = RemoveAt(@, pos)]]

RemoveAmong(side, order_id, hits) ==
    IF hits = {} THEN [found |-> FALSE, order |-> None, side |-> side]
    ELSE RemoveAtPrice(side, CHOOSE x \in hits : \A y \in hits : x <= y,
            Position(side[CHOOSE x \in hits : \A y \in hits : x <= y],
                     order_id))

\* the first order with that id on one side; the price level stays in the
\* map also when its queue becomes empty
RemoveFromSide(side, order_id) ==
    RemoveAmong(side, order_id,
                {p \in DOMAIN side : Position(side[p], order_id) > 0})

removed_from(e, market_id, b, a) ==
    IF b.found
    THEN [found |-> TRUE, order |-> b.order,
          e |-> [e EXCEPT !.orderbooks[market_id].bids = b.side]]
    ELSE IF a.found
    THEN [found |-> TRUE, order |-> a.order,
          e |-> [e EXCEPT !.orderbooks[market_id].asks = a.side]]
    ELSE [found |-> FALSE, order |-> None, e |-> e]

\* remove_order_from_orderbook: bids first, then asks
remove_order_from_orderbook(e, market_id, order_id) ==
    IF market_id \notin DOMAIN e.orderbooks
    THEN [found |-> FALSE, order |-> None, e |-> e]
    ELSE removed_from(e, market_id,
            RemoveFromSide(e.orderbooks[market_id].bids, order_id),
            RemoveFromSide(e.orderbooks[market_id].asks, order_id))

unlock_quote(e, order, market, q) ==
    IF q.ok THEN unlock(e, order.user_id, market.quote_currency.id, q.val)
    ELSE e

\* a release that forgets the base reservation of Sell orders
release_cancelled_buys_only(e, order, market) ==
    IF order.order_kind # "Limit" \/ order.order_type # "Buy"
       \/ order.price = None
    THEN e
    ELSE unlock_quote(e, order, market,
           safe_multiply_divide(Unwrap(order.price), Remaining(order),
                                market.base_currency.decimals))

\* the unlock of the remaining reservation of a cancelled Limit order
release_cancelled(e, order, market) ==
    IF order.order_kind # "Limit" THEN e
    ELSE IF order.order_type = "Buy"
    THEN IF order.price = None THEN e
         ELSE unlock_quote(e, order, market,
                safe_multiply_divide(Unwrap(order.price), Remaining(order),
                                     market.base_currency.decimals))
    ELSE unlock(e, order.user_id, market.base_currency.id, Remaining(order))

cancel_reply(e, order) ==
    [e |-> e, success |-> TRUE, status |-> "CANCELLED",
     message |-> "Order cancelled successfully", order |-> Some(order),
     reservation |-> NoReservation, trades |-> <<>>, moments |-> <<>>,
     matched_orders |-> <<>>]

cancel_owned(e, req, order) ==
    cancel_reply(
        publish_depth(
            queue_db_updates(
                release_cancelled(e, order, markets[order.market_id]),
                order, <<>>, <<>>),
            req.market_id),
        order)

\* a cancel that publishes the depth before it looks at what it found
cancel_removed_publishing(e, req, r) ==
    IF ~r.found
    THEN Rejected(publish_depth(e, req.market_id), "Order not found")
    ELSE IF r.order.user_id # req.user_id
    THEN [Rejected(r.e, "Order does not belong to user")
            EXCEPT !.order = Some(r.order)]
    ELSE cancel_owned(r.e, req, [r.order EXCEPT !.status = "Cancelled"])

\* the order is taken out of the book before its owner is checked
cancel_removed(e, req, r) ==
    IF ~r.found THEN Rejected(e, "Order not found")
    ELSE IF r.order.user_id # req.user_id
    THEN [Rejected(r.e, "Order does not belong to user")
            EXCEPT !.order = Some(r.order)]
    ELSE cancel_owned(r.e, req, [r.order EXCEPT !.status = "Cancelled"])

process_cancel_order(e, req) ==
    cancel_removed(e, req,
        remove_order_from_orderbook(e, req.market_id, req.order_id))

\* ------------------------------------------------------------------ inputs
\* Requests as the API sends them: positive amounts and quantities, a
\* positive price on every Limit order, no price on a Market order.
\* u1 moves quote, u2 moves base
BalanceRequests(amount) ==
    {[user_id |-> "u1", token_id |-> "QUOTE", amount |-> amount],
     [user_id |-> "u2", token_id |-> "BASE", amount |-> amount]}

LimitRequests(prices, quantities) ==
    [user_id : Users, market_id : {"m1"}, order_type : {"Buy", "Sell"},
     order_kind : {"Limit"}, price : {Some(p) : p \in prices},
     quantity : quantities]

MarketRequests(quantities) ==
    [user_id : Users, market_id : {"m1"}, order_type : {"Buy", "Sell"},
     order_kind : {"Market"}, price : {None}, quantity : quantities]

\* an order for a market the registry does not know, a Buy Limit whose
\* notional exceeds the 64-bit range, an order of a user without balances
OddRequests ==
    {[user_id |-> "u1", market_id |-> "m0", order_type |-> "Buy",
      order_kind |-> "Limit", price |-> Some(1), quantity |-> 1],
     [user_id |-> "u1", market_id |-> "m1", order_type |-> "Buy",
      order_kind |-> "Limit", price |-> Some(MaxI64), quantity |-> 2],
     [user_id |-> "u3", market_id |-> "m1", order_type |-> "Sell",
      order_kind |-> "Limit", price |-> Some(1), quantity |-> 1]}

OrderRequests ==
    LimitRequests(Prices, Quantities) \cup MarketRequests(Quantities)
        \cup OddRequests

CancelRequests(max_orders) ==
    [user_id : Users, order_id : 1..max_orders, market_id : {"m1"}]

\* -------------------------------------------------------------------- Init
NoLast ==
    [kind |-> "none", req |-> None, success |-> FALSE, status |-> "",
     message |-> "", order |-> None, reservation |-> NoReservation,
     trades |-> <<>>, moments |-> <<>>, matched_orders |-> <<>>,
     events |-> <<>>, snapshots |-> 0, changes_since_snapshot |-> 0]

\* engine_processing_queue is empty, the group has delivered nothing, no
\* balance snapshot is stored
NoStream ==
    [queue |-> <<>>, last_delivered |-> 0, pending |-> {},
     messages |-> <<>>, current |-> None,
     applied |-> [i \in 1..MaxStream |-> 0], replied |-> EmptyMap,
     published |-> [i \in 1..MaxStream |-> <<>>], run |-> {},
     depth_sent |-> EmptyMap,
     lost |-> {}, acked |-> {}, snapshot |-> EmptyMap,
     snapshot_books |-> EmptyMap, restarts |-> 0,
     database |-> [orders |-> EmptyMap, trades |-> <<>>,
                   balances |-> EmptyMap],
     registry |-> [active |-> DOMAIN markets,
                   TOKENS_DECIMALS |-> [t \in Tokens |-> 0],
                   MARKETS |-> [m \in DOMAIN markets |->
                       [base_token_id |-> markets[m].base_currency.id,
                        quote_token_id |-> markets[m].quote_currency.id]],
                   pc |-> "idle", token_rows |-> <<>>, market_rows |-> <<>>,
                   lookup |-> None],
     db_update_queue |-> <<>>, db_emitted |-> <<>>, db_delivered |-> 0,
     db_batch |-> <<>>,
     db_pc |-> "read", db_acked |-> {}, db_committed |-> {},
     db_batches |-> 0, calls |-> EmptyMap,
     users |-> [next_client |-> 1, clients |-> {}, client_subs |-> EmptyMap,
                subs_index |-> EmptyMap]]

\* load_balance_snapshots: u1 holds quote, u2 holds base
LoadedBalances(quote, base) ==
    [u \in Users |->
        IF u = "u1"
        THEN [t \in {"QUOTE"} |-> [available |-> quote, locked |-> 0]]
        ELSE [t \in {"BASE"} |-> [available |-> base, locked |-> 0]]]

\* TradingEngine::new followed by load_balance_snapshots
InitWith(quote, base) ==
    /\ balances = LoadedBalances(quote, base)
    /\ orderbooks = EmptyMap
    /\ tickers = EmptyMap
    /\ depth_seq = EmptyMap
    /\ ticker_seq = EmptyMap
    /\ operations_since_snapshot = 0
    /\ next_order_id = 1
    /\ net_deposited = [t \in Tokens |-> IF t = "QUOTE" THEN quote ELSE base]
    /\ rested = EmptyMap
    /\ last = NoLast
    /\ stream = NoStream

\* TradingEngine::new with no balance snapshot to load
InitLedger ==
    /\ balances = EmptyMap
    /\ orderbooks = EmptyMap
    /\ tickers = EmptyMap
    /\ depth_seq = EmptyMap
    /\ ticker_seq = EmptyMap
    /\ operations_since_snapshot = 0
    /\ next_order_id = 1
    /\ net_deposited = [t \in Tokens |-> 0]
    /\ rested = EmptyMap
    /\ last = NoLast
    /\ stream = NoStream

\* ----------------------------------------------------------------- actions
Commit(e) ==
    /\ balances' = e.balances
    /\ orderbooks' = e.orderbooks
    /\ tickers' = e.tickers
    /\ depth_seq' = e.depth_seq
    /\ ticker_seq' = e.ticker_seq
    /\ operations_since_snapshot' = e.operations_since_snapshot

\* history: the accepted requests (orders, cancels, deposits, withdrawals)
\* applied since the latest call of take_snapshots
ChangesAfter(out) ==
    IF out.e.snapshots > 0 THEN 0
    ELSE last.changes_since_snapshot + (IF out.success THEN 1 ELSE 0)

\* `last` keeps the request of an accepted request only: a refused request
\* is told by its kind, its reply and what it changed
OrderLast(kind, req, out) ==
    [kind |-> kind, req |-> IF out.success THEN Some(req) ELSE None,
     success |-> out.success,
     status |-> out.status, message |-> out.message, order |-> out.order,
     reservation |-> out.reservation, trades |-> out.trades,
     moments |-> out.moments, matched_orders |-> out.matched_orders,
     events |-> out.e.events, snapshots |-> out.e.snapshots,
     changes_since_snapshot |-> ChangesAfter(out)]

\* a balance request is kept in `last` whatever its reply
BalanceLast(kind, req, out) ==
    [NoLast EXCEPT !.kind = kind,
                   !.req = Some(req),
                   !.success = out.success,
                   !.events = out.e.events, !.snapshots = out.e.snapshots,
                   !.changes_since_snapshot = ChangesAfter(out)]

\* history: the fate of the orders that rested in a book
RECURSIVE MarkFilled(_, _)
MarkFilled(r, matched_orders) ==
    IF matched_orders = <<>> THEN r
    ELSE MarkFilled(
            IF Head(matched_orders).status = "Filled"
               /\ Head(matched_orders).id \in DOMAIN r
            THEN [r EXCEPT ![Head(matched_orders).id].fate = "filled"]
            ELSE r,
            Tail(matched_orders))

\* history: a Limit order with a remainder rests in the book
MarkRested(r, order) ==
    IF order.order_kind = "Limit" /\ Remaining(order) > 0
    THEN Put(r, order.id, [order_type |-> order.order_type,
                           price |-> Unwrap(order.price),
                           fate |-> "resting"])
    ELSE r

DepositDone(req, out) ==
    /\ Commit(out.e)
    /\ last' = BalanceLast("deposit", req, out)
    /\ net_deposited' = [net_deposited EXCEPT ![req.token_id] = @ + req.amount]
    /\ UNCHANGED <<next_order_id, rested>>

DepositOf(requests, max_supply) ==
    \E req \in requests :
        /\ net_deposited[req.token_id] + req.amount <= max_supply
        /\ DepositDone(req, process_deposit(Engine, req))
        /\ UNCHANGED stream

WithdrawDone(req, out) ==
    /\ Commit(out.e)
    /\ last' = BalanceLast("withdraw", req, out)
    /\ net_deposited' =
         IF out.success
         THEN [net_deposited EXCEPT ![req.token_id] = @ - req.amount]
         ELSE net_deposited
    /\ UNCHANGED <<next_order_id, rested>>

WithdrawOf(requests) ==
    \E req \in requests :
        /\ WithdrawDone(req, process_withdrawal(Engine, req))
        /\ UNCHANGED stream

OrderDone(req, out) ==
    /\ Commit(out.e)
    /\ last' = OrderLast("order", req, out)
    /\ next_order_id' = IF out.success THEN next_order_id + 1
                        ELSE next_order_id
    /\ rested' = IF out.success
                 THEN MarkRested(MarkFilled(rested, out.matched_orders),
                                 Unwrap(out.order))
                 ELSE rested
    /\ UNCHANGED net_deposited

\* the engine gives every order a fresh id; the model numbers the accepted
\* orders 1, 2, ...
NewOrderOf(requests, max_orders) ==
    \E req \in requests :
        /\ next_order_id <= max_orders
        /\ OrderDone(req, process_order(Engine, req, next_order_id))
        /\ UNCHANGED stream

\* an order a Cancel request took out of the book counts as cancelled
CancelDone(req, out) ==
    /\ Commit(out.e)
    /\ last' = OrderLast("cancel", req, out)
    /\ rested' = IF out.order # None /\ req.order_id \in DOMAIN rested
                 THEN [rested EXCEPT ![req.order_id].fate = "cancelled"]
                 ELSE rested
    /\ UNCHANGED <<next_order_id, net_deposited>>

CancelOf(requests) ==
    \E req \in requests :
        /\ req.order_id < next_order_id
        /\ CancelDone(req, process_cancel_order(Engine, req))
        /\ UNCHANGED stream

\* the funded engine takes orders and cancels
Spec ==
    /\ InitWith(LoadedQuote, LoadedBase)
    /\ [][\/ NewOrderOf(OrderRequests, MaxOrders)
          \/ CancelOf(CancelRequests(MaxOrders))]_vars

\* one price, one quantity, more orders
SpecFifo ==
    /\ InitWith(FifoQuote, FifoBase)
    /\ [][\/ NewOrderOf(LimitRequests({1}, {1}) \cup MarketRequests({1}),
                        MaxFifoOrders)
          \/ CancelOf(CancelRequests(MaxFifoOrders))]_vars

\* the empty engine takes deposits, withdrawals, orders and cancels
SpecLedger ==
    /\ InitLedger
    /\ [][\/ DepositOf(BalanceRequests(MaxLedgerAmount), MaxLedgerSupply)
          \/ WithdrawOf(BalanceRequests(MaxLedgerAmount))
          \/ NewOrderOf(LimitRequests(1..MaxLedgerPrice, Quantities)
                          \cup MarketRequests(Quantities), MaxLedgerOrders)
          \/ CancelOf(CancelRequests(MaxLedgerOrders))]_vars

\* ------------------------------------------------- the processing loop
\* consume_messages(consumer_group, consumer_name, 10)
batch_size == 10

\* the well-formed messages the API appends; every request has its own
\* request_id, and a message appended again carries the same request_id
StreamMessages ==
    { [type |-> "Deposit", request_id |-> "r1",
       data |-> [user_id |-> "u1", token_id |-> "QUOTE", amount |-> 1]],
      [type |-> "Withdraw", request_id |-> "r2",
       data |-> [user_id |-> "u1", token_id |-> "QUOTE", amount |-> 1]],
      [type |-> "Order", request_id |-> "r3",
       data |-> [user_id |-> "u1", market_id |-> "m1", order_type |-> "Buy",
                 order_kind |-> "Limit", price |-> Some(1), quantity |-> 1]],
      [type |-> "CancelOrder", request_id |-> "r4",
       data |-> [user_id |-> "u1", order_id |-> 1, market_id |-> "m1"]] }

\* TradingEngine::new, load_balance_snapshots, and an empty request stream
InitStream ==
    /\ balances = LoadedBalances(StreamQuote, StreamBase)
    /\ orderbooks = EmptyMap
    /\ tickers = EmptyMap
    /\ depth_seq = EmptyMap
    /\ ticker_seq = EmptyMap
    /\ operations_since_snapshot = 0
    /\ next_order_id = 1
    /\ net_deposited = [t \in Tokens |-> IF t = "QUOTE" THEN StreamQuote
                                         ELSE StreamBase]
    /\ rested = EmptyMap
    /\ last = NoLast
    /\ stream = [NoStream EXCEPT
                   !.snapshot = LoadedBalances(StreamQuote, StreamBase)]

\* the API's XADD to engine_processing_queue
queue_message_internal ==
    \E message \in StreamMessages :
        /\ Len(stream.queue) < MaxStream
        /\ stream' = [stream EXCEPT !.queue = Append(@, message)]
        /\ UNCHANGED <<engine, next_order_id, net_deposited, rested, last>>

\* XREADGROUP ... COUNT batch_size ... ">": the entries the group has never
\* delivered, oldest first; they enter the group's pending list
new_entries(st) ==
    [i \in 1..Min(batch_size, Len(st.queue) - st.last_delivered)
        |-> st.last_delivered + i]

\* the loop is at its top: the batch is worked off
consume_messages ==
    /\ stream.messages = <<>>
    /\ stream.current = None
    /\ new_entries(stream) # <<>>
    /\ stream' = [stream EXCEPT
                    !.messages = new_entries(stream),
                    !.pending = @ \cup {new_entries(stream)[i] :
                                          i \in DOMAIN new_entries(stream)},
                    !.last_delivered = @ + Len(new_entries(stream))]
    /\ UNCHANGED <<engine, next_order_id, net_deposited, rested, last>>

\* the match on the message of main: one handler for each kind of message
handle_message(message) ==
    \/ /\ message.type = "Deposit"
       /\ DepositDone(message.data, process_deposit(Engine, message.data))
    \/ /\ message.type = "Withdraw"
       /\ WithdrawDone(message.data,
                       process_withdrawal(Engine, message.data))
    \/ /\ message.type = "Order"
       /\ OrderDone(message.data,
                    process_order(Engine, message.data, next_order_id))
    \/ /\ message.type = "CancelOrder"
       /\ CancelDone(message.data,
                     process_cancel_order(Engine, message.data))

\* what the requester is told: send_unified_response
ReplyOf(l) == [success |-> l.success, status |-> l.status, order |-> l.order]

\* the depth topics after a handler: the seq of the latest depth message
\* of every market the handler published a depth message for
depth_published(sent, before, after) ==
    [m \in DOMAIN sent \cup {k \in DOMAIN after :
                                k \notin DOMAIN before
                                \/ after[k] # before[k]} |->
        IF m \in DOMAIN after /\ (m \notin DOMAIN before
                                   \/ after[m] # before[m])
        THEN after[m] ELSE sent[m]]

\* take_snapshots, when the handler called it: SET snapshot:balance:<user>
\* for every user and SET snapshot:orderbook:<market> for every book
take_snapshots(st, l, bal, books) ==
    IF l.snapshots > 0
    THEN [st EXCEPT !.snapshot = bal, !.snapshot_books = books]
    ELSE st

\* the stream after the handler of entry `id` returned: the XADDs of its
\* events to db_update_queue went through (db_up) or failed unnoticed, the
\* reply is made, due snapshots are stored
handled(st, id, db_up, l, bal, seqs, books) ==
  take_snapshots(
    [st EXCEPT
       !.depth_sent = depth_published(@, depth_seq, seqs),
       !.current = Some(id),
       !.applied[id] = @ + 1,
       !.run = @ \cup {id},
       !.replied = IF st.queue[id].request_id \in DOMAIN @ THEN @
                   ELSE Put(@, st.queue[id].request_id, ReplyOf(l)),
       !.lost = IF db_up \/ l.events = <<>> THEN @ ELSE @ \cup {id}],
    l, bal, books)

\* main, lines 53-69: the next message of the batch is handled
process_message ==
    /\ stream.messages # <<>>
    /\ stream.current = None
    /\ handle_message(stream.queue[Head(stream.messages)])
    /\ \E db_up \in BOOLEAN :
          stream' = handled(stream, Head(stream.messages), db_up,
                            last', balances', depth_seq', orderbooks')

\* main, lines 71-74: the reply of the handler is published on
\* engine_response:<request_id>; every handler copies the request_id of
\* its request into its reply
send_unified_response ==
    /\ stream.current # None
    /\ stream.published[Unwrap(stream.current)] = <<>>
    /\ stream' = [stream EXCEPT
                    !.published[Unwrap(stream.current)] =
                        Append(@, stream.queue[Unwrap(stream.current)]
                                     .request_id)]
    /\ UNCHANGED <<engine, next_order_id, net_deposited, rested, last>>

\* an ack that does not wait for the reply
ack_message_early ==
    /\ stream.current # None
    /\ stream' = [stream EXCEPT
                    !.pending = @ \ {Unwrap(stream.current)},
                    !.acked = @ \cup {Unwrap(stream.current)},
                    !.messages = Tail(@),
                    !.current = None]
    /\ UNCHANGED <<engine, next_order_id, net_deposited, rested, last>>

\* main, lines 76-79: XACK of the entry just handled and answered,
\* whatever became of its events
ack_message ==
    /\ stream.current # None
    /\ stream.published[Unwrap(stream.current)] # <<>>
    /\ stream' = [stream EXCEPT
                    !.pending = @ \ {Unwrap(stream.current)},
                    !.acked = @ \cup {Unwrap(stream.current)},
                    !.messages = Tail(@),
                    !.current = None]
    /\ UNCHANGED <<engine, next_order_id, net_deposited, rested, last>>

\* the engine process dies and main starts again: the engine's memory is
\* gone, the stored balance snapshots are loaded, the batch is forgotten
restart ==
    /\ stream.restarts < MaxRestarts
    /\ balances' = stream.snapshot
    /\ orderbooks' = EmptyMap
    /\ tickers' = EmptyMap
    /\ depth_seq' = EmptyMap
    /\ ticker_seq' = EmptyMap
    /\ operations_since_snapshot' = 0
    /\ last' = [NoLast EXCEPT !.kind = "restart"]
    /\ stream' = [stream EXCEPT !.messages = <<>>, !.current = None,
                                !.replied = EmptyMap, !.run = {},
                                !.restarts = @ + 1]
    /\ UNCHANGED <<next_order_id, net_deposited, rested>>

SpecStream ==
    /\ InitStream
    /\ [][\/ queue_message_internal
          \/ consume_messages
          \/ process_message
          \/ send_unified_response
          \/ ack_message
          \/ restart]_vars

\* the loop of main never stops by itself: a step of the engine that can be
\* taken is taken. The last conjunct is WF_vars(process_message) written
\* out: process_message can be taken exactly when the batch holds a message
\* and no entry waits for its ack, and it is the only step that makes an
\* entry the current one.
FairSpecStream ==
    /\ SpecStream
    /\ WF_vars(consume_messages)
    /\ WF_vars(send_unified_response)
    /\ WF_vars(ack_message)
    /\ \/ []<>(~(stream.messages # <<>> /\ stream.current = None))
       \/ []<><<stream.current = None /\ stream'.current # None>>_vars

\* ------------------------------------------- snapshots and a restart
\* the requests of the restart specification: u1 deposits and withdraws
\* quote, u1 bids, every user cancels
RestartBalanceRequests ==
    {[user_id |-> "u1", token_id |-> "QUOTE", amount |-> 1]}

\* one request is handled; take_snapshots stores the snapshots when the
\* handler's counter reached snapshot_interval
RestartRequest ==
    /\ \/ \E req \in RestartBalanceRequests :
            /\ net_deposited[req.token_id] + req.amount <= MaxRestartSupply
            /\ DepositDone(req, process_deposit(Engine, req))
       \/ \E req \in RestartBalanceRequests :
            WithdrawDone(req, process_withdrawal(Engine, req))
       \/ \E req \in {r \in LimitRequests({1}, {1}) :
                         r.user_id = "u1" /\ r.order_type = "Buy"} :
            /\ next_order_id <= MaxRestartOrders
            /\ OrderDone(req, process_order(Engine, req, next_order_id))
       \/ \E req \in CancelRequests(MaxRestartOrders) :
            /\ req.order_id < next_order_id
            /\ CancelDone(req, process_cancel_order(Engine, req))
    /\ stream' = take_snapshots(stream, last', balances', orderbooks')

SpecRestart == InitLedger /\ [][RestartRequest \/ restart]_vars

\* ------------------------------------------------------- the API registry
\* load_registry, one statement at a time: the two SELECTs, the two
\* clear() calls and every insert are steps of their own
load_registry(r) ==
    CASE r.pc = "idle" ->
           [r EXCEPT !.token_rows = <<"BASE", "QUOTE">>, !.pc = "clear_tokens"]
      [] r.pc = "clear_tokens" ->
           [r EXCEPT !.TOKENS_DECIMALS = EmptyMap, !.pc = "insert_tokens"]
      [] r.pc = "insert_tokens" /\ r.token_rows # <<>> ->
           [r EXCEPT !.TOKENS_DECIMALS = Put(@, Head(r.token_rows), 0),
                     !.token_rows = Tail(@)]
      [] r.pc = "insert_tokens" /\ r.token_rows = <<>> ->
           [r EXCEPT !.market_rows =
                        SelectSeq(<<"m1", "m2">>, LAMBDA m : m \in r.active),
                     !.pc = "clear_markets"]
      [] r.pc = "clear_markets" ->
           [r EXCEPT !.MARKETS = EmptyMap, !.pc = "insert_markets"]
      [] r.pc = "insert_markets" /\ r.market_rows # <<>> ->
           [r EXCEPT !.MARKETS =
                        IF {markets[Head(r.market_rows)].base_currency.id,
                            markets[Head(r.market_rows)].quote_currency.id}
                              \subseteq DOMAIN r.TOKENS_DECIMALS
                        THEN Put(@, Head(r.market_rows),
                               [base_token_id |->
                                  markets[Head(r.market_rows)].base_currency.id,
                                quote_token_id |->
                                  markets[Head(r.market_rows)].quote_currency.id])
                        ELSE @,
                     !.market_rows = Tail(@)]
      [] r.pc = "insert_markets" /\ r.market_rows = <<>> ->
           [r EXCEPT !.pc = "idle"]

\* the refresh task of the API's main runs the next statement
registry_refresh ==
    /\ stream' = [stream EXCEPT !.registry = load_registry(@)]
    /\ UNCHANGED <<engine, next_order_id, net_deposited, rested, last>>

\* a request handler on a worker thread looks a market up
get_market_meta ==
    \E market_id \in DOMAIN markets :
        /\ stream' = [stream EXCEPT !.registry.lookup =
              Some([id |-> market_id,
                    found |-> market_id \in DOMAIN stream.registry.MARKETS,
                    tokens_cached |->
                      /\ market_id \in DOMAIN stream.registry.MARKETS
                      /\ {stream.registry.MARKETS[market_id].base_token_id,
                          stream.registry.MARKETS[market_id].quote_token_id}
                            \subseteq DOMAIN stream.registry.TOKENS_DECIMALS])]
        /\ UNCHANGED <<engine, next_order_id, net_deposited, rested, last>>

\* a request handler on a worker thread looks a token up
get_token_decimals ==
    \E token_id \in Tokens :
        /\ stream' = [stream EXCEPT !.registry.lookup =
              Some([id |-> token_id,
                    found |-> token_id \in DOMAIN stream.registry.TOKENS_DECIMALS,
                    tokens_cached |->
                      token_id \in DOMAIN stream.registry.TOKENS_DECIMALS])]
        /\ UNCHANGED <<engine, next_order_id, net_deposited, rested, last>>

\* the admin routes switch market m2 off (delete_market) and on again
\* (update_market); the tokens and market m1 stay active
update_market ==
    /\ stream' = [stream EXCEPT !.registry.active =
                    IF "m2" \in @ THEN @ \ {"m2"} ELSE @ \cup {"m2"}]
    /\ UNCHANGED <<engine, next_order_id, net_deposited, rested, last>>

SpecRegistry ==
    InitLedger /\ [][registry_refresh \/ get_market_meta \/ get_token_decimals
                        \/ update_market]_vars

\* ---------------------------------------------------------- the db-updater
\* the status column: the engine's status as the text the db-updater stores
status_str(status) ==
    CASE status = "Pending" -> "PENDING"
      [] status = "PartiallyFilled" -> "PARTIALLY_FILLED"
      [] status = "Filled" -> "FILLED"
      [] status = "Cancelled" -> "CANCELLED"

\* insert_into(orders).values(new_order).on_conflict(id).do_nothing()
insert_order(db, order_data) ==
    IF order_data.id \in DOMAIN db.orders THEN db
    ELSE [db EXCEPT !.orders =
            Put(@, order_data.id,
                [quantity |-> order_data.quantity,
                 filled_quantity |-> order_data.filled_quantity,
                 status |-> status_str(order_data.status)])]

\* update(orders.find(id)).set(filled_quantity, status); a missing order is
\* created
update_order(db, order_data) ==
    IF order_data.id \in DOMAIN db.orders
    THEN [db EXCEPT !.orders[order_data.id] =
            [@ EXCEPT !.filled_quantity = order_data.filled_quantity,
                      !.status = status_str(order_data.status)]]
    ELSE insert_order(db, order_data)

\* NewTrade has no id: the row's key is not taken from the event, every
\* insert gets a key of its own, and on_conflict(trades::id) meets no row
insert_trade(db, trade_data) ==
    [db EXCEPT !.trades =
        Append(@, [id |-> Len(@) + 1,
                   buyer_order_id |-> trade_data.buyer_order_id,
                   seller_order_id |-> trade_data.seller_order_id,
                   price |-> trade_data.price,
                   quantity |-> trade_data.quantity])]

process_db_update(db, update) ==
    CASE update.type = "order_created" -> insert_order(db, update)
      [] update.type = "order_updated" -> update_order(db, update)
      [] update.type = "trade_executed" -> insert_trade(db, update.trade)
      [] update.type = "balance_updated" ->
           \* update of the (user_id, token_id) row, or the upsert of a new row
           [db EXCEPT !.balances =
              Put(@, <<update.user_id, update.token_id>>,
                  [amount |-> update.available,
                   locked_amount |-> update.locked])]

\* the events of db_update_queue, as the engine writes them
DBUpdateEvent ==
    [type : {"order_created", "order_updated"}, id : 1..MaxDbOrders,
     quantity : {MaxDbQuantity}, filled_quantity : 0..MaxDbQuantity,
     status : {"Pending", "PartiallyFilled", "Filled", "Cancelled"}]
    \cup [type : {"trade_executed"},
          trade : [id : 1..MaxDbTrades, buyer_order_id : {1},
                   seller_order_id : {2}, buyer_user_id : {"u1"},
                   seller_user_id : {"u2"}, price : {1}, quantity : {1}]]
    \cup [type : {"balance_updated"}, user_id : {"u1"},
          token_id : {"QUOTE"}, available : 0..MaxDbQuantity,
          locked : 0..1]

\* the db-updater applies one event of the queue
db_update ==
    \E update \in DBUpdateEvent :
        /\ Len(stream.database.trades) < MaxDbRows
        /\ stream' = [stream EXCEPT
                        !.database = process_db_update(@, update)]
        /\ UNCHANGED <<engine, next_order_id, net_deposited, rested, last>>

SpecDb == InitLedger /\ [][db_update]_vars

\* ------------------------------------------- the loop of the db-updater
\* XREADGROUP ... COUNT 20
db_batch_size == 20

\* the engine handles one request; the XADDs of its events to
\* db_update_queue go through (db_up) or fail unnoticed; db_emitted is the
\* history of the events the engine made
db_engine_request ==
    /\ Len(stream.db_emitted) < MaxDbQueue
    /\ \/ \E req \in RestartBalanceRequests :
            /\ net_deposited[req.token_id] + req.amount <= MaxRestartSupply
            /\ DepositDone(req, process_deposit(Engine, req))
       \/ \E req \in LimitRequests({1}, {1}) :
            /\ next_order_id <= MaxDbOrders
            /\ OrderDone(req, process_order(Engine, req, next_order_id))
       \/ \E req \in CancelRequests(MaxDbOrders) :
            /\ req.order_id < next_order_id
            /\ CancelDone(req, process_cancel_order(Engine, req))
    /\ \E db_up \in BOOLEAN :
          stream' = [stream EXCEPT
                       !.db_emitted = @ \o last'.events,
                       !.db_update_queue = IF db_up THEN @ \o last'.events
                                           ELSE @]

\* XREADGROUP with ">": the entries never delivered, at most db_batch_size
db_read ==
    /\ stream.db_pc = "read"
    /\ stream.db_delivered < Len(stream.db_update_queue)
    /\ stream' = [stream EXCEPT
          !.db_batch =
             [i \in 1..Min(db_batch_size,
                           Len(stream.db_update_queue) - stream.db_delivered)
                |-> stream.db_delivered + i],
          !.db_delivered =
             @ + Min(db_batch_size, Len(stream.db_update_queue) - @),
          !.db_batches = @ + 1,
          !.db_pc = "transaction"]
    /\ UNCHANGED <<engine, next_order_id, net_deposited, rested, last>>

\* orders first, then trades, then balances, each group in stream order
order_updates_by_dependencies(q, ids) ==
    SelectSeq(ids, LAMBDA i : q[i].type \in {"order_created", "order_updated"})
    \o SelectSeq(ids, LAMBDA i : q[i].type = "trade_executed")
    \o SelectSeq(ids, LAMBDA i : q[i].type = "balance_updated")

\* a transaction that keeps what it applied before the failure
RECURSIVE transaction_without_rollback(_, _, _, _)
transaction_without_rollback(db, q, ordered, fail_at) ==
    IF ordered = <<>> THEN [ok |-> TRUE, db |-> db]
    ELSE IF fail_at = 1 THEN [ok |-> FALSE, db |-> db]
    ELSE transaction_without_rollback(process_db_update(db, q[Head(ordered)]),
                                      q, Tail(ordered), fail_at - 1)

\* db_conn.transaction: the updates are applied in their order; the update
\* number fail_at fails (0: none), and then nothing of the batch is kept
RECURSIVE transaction(_, _, _, _)
transaction(db, q, ordered, fail_at) ==
    IF fail_at > 0 THEN [ok |-> FALSE, db |-> db]
    ELSE IF ordered = <<>> THEN [ok |-> TRUE, db |-> db]
    ELSE transaction(process_db_update(db, q[Head(ordered)]), q,
                     Tail(ordered), 0)

\* the stream after the transaction: committed, or the `?` ended main
db_transacted(st, t) ==
    [st EXCEPT !.database = t.db,
               !.db_committed = IF t.ok THEN @ \cup {st.db_batch[i] : i \in DOMAIN st.db_batch} ELSE @,
               !.db_pc = IF t.ok THEN "ack" ELSE "stopped"]

db_transaction ==
    /\ stream.db_pc = "transaction"
    /\ \E fail_at \in 0..Len(stream.db_batch) :
          stream' = db_transacted(stream,
                      transaction(stream.database, stream.db_update_queue,
                          order_updates_by_dependencies(stream.db_update_queue,
                                                        stream.db_batch),
                          fail_at))
    /\ UNCHANGED <<engine, next_order_id, net_deposited, rested, last>>

\* XACK of every entry of the batch
db_ack ==
    /\ stream.db_pc = "ack"
    /\ stream' = [stream EXCEPT !.db_acked = @ \cup {stream.db_batch[i] : i \in DOMAIN stream.db_batch},
                                !.db_batch = <<>>, !.db_pc = "read"]
    /\ UNCHANGED <<engine, next_order_id, net_deposited, rested, last>>

SpecDbUpdater ==
    /\ InitStream
    /\ [][db_engine_request \/ db_read \/ db_transaction \/ db_ack]_vars

\* the db-updater's loop goes on while it can
FairSpecDbUpdater ==
    /\ SpecDbUpdater
    /\ WF_vars(db_read)
    /\ WF_vars(db_transaction)
    /\ WF_vars(db_ack)

\* ------------------------------------------------------------- observations
\* the orders resting on one side / in one book / in all books
SideOrders(side) ==
    {side[p][i] : <<p, i>> \in {x \in (DOMAIN side) \X (1..(MaxOrders + MaxFifoOrders)) :
                                 x[2] <= Len(side[x[1]])}}

BookOrders(book) == SideOrders(book.bids) \cup SideOrders(book.asks)

RestingOrders(books) == UNION {BookOrders(books[m]) : m \in DOMAIN books}

RestingIds(books) == {o.id : o \in RestingOrders(books)}

\* the sum over all users of available + locked of one token
TotalHeld(bal, t) ==
    SumOver(DOMAIN bal,
            [u \in DOMAIN bal |-> TokenBalanceOf(bal, u, t).available
                                  + TokenBalanceOf(bal, u, t).locked])

\* the ids of the makers the last request filled completely
FilledIds(matched_orders) ==
    {matched_orders[i].id : i \in {j \in 1..Len(matched_orders) :
                                     matched_orders[j].status = "Filled"}}

\* ------------------------------------------------------------------ claims
\* C1: after every applied request, for each token the sum over all users
\* of available + locked equals the deposits minus the withdrawals of that
\* token; settling a trade does not change the sum.
Conservation ==
    \A t \in Tokens : TotalHeld(balances, t) = net_deposited[t]

\* C2: after every applied request, available >= 0 and locked >= 0 for
\* every user and token.
NonNegativeBalances ==
    \A u \in DOMAIN balances : \A t \in DOMAIN balances[u] :
        balances[u][t].available >= 0 /\ balances[u][t].locked >= 0

\* C3: after a NewOrder is processed, every order that was resting before
\* and was not completely filled by that request's trades is still resting.
RestingOrdersStay ==
    [][last'.kind = "order" =>
          \A id \in RestingIds(orderbooks) :
              \/ id \in RestingIds(orderbooks')
              \/ id \in FilledIds(last'.matched_orders)]_vars

\* the taker of the last request and the makers it traded with
Taker == Unwrap(last.order)

TradeIndices == 1..Len(last.moments)

\* level p is strictly better for a taker of that side than level q
BetterFor(order_type, p, q) ==
    IF order_type = "Buy" THEN p < q ELSE p > q

\* C4: when a trade is produced at maker price p, no opposite level
\* strictly better for the taker than p holds open quantity at that moment.
PricePriority ==
    \A i \in TradeIndices :
        \A p \in DOMAIN last.moments[i].side :
            BetterFor(Taker.order_type, p, last.moments[i].level)
                => OpenQuantity(last.moments[i].side[p]) = 0

\* a trade was made while a strictly worse level held open quantity
PricePriorityWitness ==
    \E i \in TradeIndices :
        \E p \in DOMAIN last.moments[i].side :
            /\ BetterFor(Taker.order_type, last.moments[i].level, p)
            /\ OpenQuantity(last.moments[i].side[p]) > 0

\* C5: a taker trades with an order only after every order admitted before
\* it to the same level of the same side has been completely filled or
\* cancelled, and a partially filled maker stays at the head of its queue.
FifoWithinLevel ==
    \A i \in TradeIndices :
        /\ \A id \in DOMAIN rested :
              ( /\ id < last.moments[i].maker.id
                /\ rested[id].order_type = last.moments[i].maker.order_type
                /\ rested[id].price = last.moments[i].level )
                  => rested[id].fate # "resting"
        /\ last.matched_orders[i].status = "PartiallyFilled"
              => Head(OppositeSide(orderbooks[Taker.market_id], Taker)
                        [last.moments[i].level]).id
                 = last.matched_orders[i].id

\* C6: every trade executes at the maker's price, and for a Limit taker
\* that price is never worse than the taker's limit.
TradeAtMakerPrice ==
    \A i \in TradeIndices :
        /\ last.trades[i].price = Unwrap(last.moments[i].maker.price)
        /\ Taker.order_kind = "Limit"
              => ~BetterFor(Taker.order_type, Unwrap(Taker.price),
                            last.trades[i].price)

\* a Limit taker traded at a price strictly better than its limit
TradeAtMakerPriceWitness ==
    \E i \in TradeIndices :
        /\ Taker.order_kind = "Limit"
        /\ last.trades[i].price = Unwrap(last.moments[i].maker.price)
        /\ BetterFor(Taker.order_type, last.trades[i].price,
                     Unwrap(Taker.price))

\* C7: every order resting in a book has 0 <= filled_quantity < quantity
\* and status Pending or PartiallyFilled.
RestingOrdersOpen ==
    \A o \in RestingOrders(orderbooks) :
        /\ 0 <= o.filled_quantity
        /\ o.filled_quantity < o.quantity
        /\ o.status \in {"Pending", "PartiallyFilled"}

\* a partially filled maker rests in the book after a trade
RestingOrdersOpenWitness ==
    /\ last.trades # <<>>
    /\ \E o \in RestingOrders(orderbooks) :
          o.status = "PartiallyFilled" /\ o.filled_quantity > 0

\* C8: a NewOrder that is answered REJECTED leaves books, balances,
\* tickers, sequence counters and the snapshot counter as they were and
\* appends no persistence event.
RejectedOrderChangesNothing ==
    [][(last'.kind = "order" /\ last'.status = "REJECTED")
          => /\ UNCHANGED engine
             /\ last'.events = <<>>
             /\ last'.snapshots = 0]_vars

\* an order was rejected for lack of funds while orders rest in the book
\* and funds are locked
RejectedOrderWitness ==
    /\ last.kind = "order"
    /\ last.status = "REJECTED"
    /\ last.message = "Insufficient balance"
    /\ RestingOrders(orderbooks) # {}
    /\ \E u \in DOMAIN balances : \E t \in DOMAIN balances[u] :
          balances[u][t].locked > 0

\* the open quantity of one side of a book
SideOpenQuantity(side) ==
    SumOver(DOMAIN side, [p \in DOMAIN side |-> OpenQuantity(side[p])])

OpenAgainst(books, req) ==
    IF req.market_id \in DOMAIN books
    THEN SideOpenQuantity(IF req.order_type = "Buy"
                          THEN books[req.market_id].asks
                          ELSE books[req.market_id].bids)
    ELSE 0

\* C9: a Market order whose quantity exceeds the open quantity of the
\* opposite side at admission is rejected; no accepted Market order is
\* left unfilled or partially filled.
MarketOrderCovered ==
    [][(/\ last'.kind = "order"
        /\ last'.success
        /\ Unwrap(last'.req).order_kind = "Market")
          => /\ Unwrap(last'.req).quantity <= OpenAgainst(orderbooks,
                                                         Unwrap(last'.req))
             /\ Unwrap(last'.order).filled_quantity
                  = Unwrap(last'.order).quantity]_vars

\* the cost of buying quantity over the ask levels, best price first
RECURSIVE WalkCost(_, _, _)
WalkCost(asks, prices, quantity) ==
    IF prices = <<>> \/ quantity <= 0 THEN 0
    ELSE (Head(prices) * Min(quantity, OpenQuantity(asks[Head(prices)])))
         + WalkCost(asks, Tail(prices),
                    quantity - Min(quantity, OpenQuantity(asks[Head(prices)])))

\* C10: the quote locked for an accepted Buy Market order of quantity Q is
\* exactly the sum over the ask levels walked best price first until Q is
\* covered of price times the quantity taken at that level.
MarketBuyLocksWalkCost ==
    [][(/\ last'.kind = "order"
        /\ last'.success
        /\ Unwrap(last'.req).order_kind = "Market"
        /\ Unwrap(last'.req).order_type = "Buy"
        /\ Unwrap(last'.req).quantity <= OpenAgainst(orderbooks,
                                                     Unwrap(last'.req)))
          => last'.reservation.amount
               = WalkCost(orderbooks[Unwrap(last'.req).market_id].asks,
                    Ascending(DOMAIN orderbooks[Unwrap(last'.req).market_id].asks),
                    Unwrap(last'.req).quantity)]_vars

\* the sum of the costs of the trades of a request
RECURSIVE TradesCost(_, _)
TradesCost(trades, decimals) ==
    IF trades = <<>> THEN 0
    ELSE ((Head(trades).price * Head(trades).quantity) \div Pow10(decimals))
         + TradesCost(Tail(trades), decimals)

\* the quote token of the market of a request and the cost of its trades
QuoteOf(req) == markets[req.market_id].quote_currency.id

LastCost(l) ==
    TradesCost(l.trades,
               markets[Unwrap(l.req).market_id].base_currency.decimals)

\* the step took the cost of its trades from the taker's available quote
\* and left the taker's locked quote as it was
BuyerPaidCost ==
    /\ TokenBalanceOf(balances', Unwrap(last'.req).user_id,
                      QuoteOf(Unwrap(last'.req))).locked
         = TokenBalanceOf(balances, Unwrap(last'.req).user_id,
                          QuoteOf(Unwrap(last'.req))).locked
    /\ TokenBalanceOf(balances', Unwrap(last'.req).user_id,
                      QuoteOf(Unwrap(last'.req))).available
         = TokenBalanceOf(balances, Unwrap(last'.req).user_id,
                          QuoteOf(Unwrap(last'.req))).available
           - LastCost(last')

\* C11: after a Buy Market order has been processed the taker's locked
\* quote is back at its value from before the order and the taker's
\* available quote has decreased by exactly the cost of the order's trades.
MarketBuyRefunded ==
    [][(/\ last'.kind = "order"
        /\ last'.success
        /\ Unwrap(last'.req).order_kind = "Market"
        /\ Unwrap(last'.req).order_type = "Buy")
          => BuyerPaidCost]_vars

\* C12: when a Buy Limit order is completely filled on admission the
\* buyer's locked quote returns to its value from before the order and the
\* available quote has decreased by exactly the cost of the trades.
FilledLimitBuyRefunded ==
    [][(/\ last'.kind = "order"
        /\ last'.success
        /\ Unwrap(last'.req).order_kind = "Limit"
        /\ Unwrap(last'.req).order_type = "Buy"
        /\ Unwrap(last'.order).filled_quantity
             = Unwrap(last'.order).quantity)
          => BuyerPaidCost]_vars

\* the token a request reserved and the requester's balance of it
ReservedBalance(bal, l) ==
    TokenBalanceOf(bal, Unwrap(l.req).user_id, l.reservation.token_id)

\* `last` is an accepted Limit order that rests with no fills
PlacedUnfilled(l) ==
    /\ l.kind = "order"
    /\ l.success
    /\ Unwrap(l.req).order_kind = "Limit"
    /\ l.trades = <<>>
    /\ Unwrap(l.order).id \in RestingIds(orderbooks)

\* the token of the reservation: base for Sell, quote for Buy
ReservedTokenOf(req) ==
    IF req.order_type = "Buy"
    THEN markets[req.market_id].quote_currency.id
    ELSE markets[req.market_id].base_currency.id

\* the placement moved exactly the reservation from available to locked
PlacementReserves ==
    (/\ last'.kind = "order"
     /\ last'.success
     /\ Unwrap(last'.req).order_kind = "Limit"
     /\ last'.trades = <<>>)
      => /\ last'.reservation.token_id = ReservedTokenOf(Unwrap(last'.req))
         /\ Unwrap(last'.order).id \in RestingIds(orderbooks')
         /\ ReservedBalance(balances', last').available
              = ReservedBalance(balances, last').available
                - last'.reservation.amount
         /\ ReservedBalance(balances', last').locked
              = ReservedBalance(balances, last').locked
                + last'.reservation.amount

\* the owner's cancel right after the placement
OwnerCancelsPlaced ==
    /\ PlacedUnfilled(last)
    /\ last'.kind = "cancel"
    /\ last'.req # None
    /\ Unwrap(last'.req).user_id = Unwrap(last.req).user_id
    /\ Unwrap(last'.req).order_id = Unwrap(last.order).id

\* the cancel moved exactly the reservation of the placement back
CancelReleases ==
    /\ last'.status = "CANCELLED"
    /\ Unwrap(last.order).id \notin RestingIds(orderbooks')
    /\ ReservedBalance(balances', last).available
         = ReservedBalance(balances, last).available
           + last.reservation.amount
    /\ ReservedBalance(balances', last).locked
         = ReservedBalance(balances, last).locked - last.reservation.amount

\* every request of the owner to cancel the order just placed is accepted
OwnerCancelAccepted ==
    PlacedUnfilled(last)
      => process_cancel_order(Engine,
            [user_id |-> Unwrap(last.req).user_id,
             order_id |-> Unwrap(last.order).id,
             market_id |-> Unwrap(last.req).market_id]).success

\* C13: placing a Limit order that rests with no fills and then cancelling
\* it as its owner returns the exact reservation: the placement moves the
\* reservation of the reserved token (base for Sell, quote for Buy) from
\* available to locked, the owner's cancel is accepted and moves the same
\* amount back, and the order is no longer in the book.
PlaceThenCancelRestores ==
    [][/\ PlacementReserves
       /\ OwnerCancelAccepted
       /\ OwnerCancelsPlaced => CancelReleases]_vars

\* an order was placed with no fills and cancelled by its owner, and the
\* balances are the loaded ones again
PlaceThenCancelWitness ==
    /\ last.kind = "cancel"
    /\ last.status = "CANCELLED"
    /\ Unwrap(last.order).id = 1
    /\ Unwrap(last.order).order_type = "Sell"
    /\ Unwrap(last.order).filled_quantity = 0
    /\ next_order_id = 2
    /\ RestingIds(orderbooks) = {}
    /\ balances = LoadedBalances(LoadedQuote, LoadedBase)

\* C14: a Cancel request whose user_id is not the owner of the order is
\* rejected and changes nothing: the order is still resting in the book at
\* its queue position and every balance is unchanged.
ForeignCancelChangesNothing ==
    [][(/\ last'.kind = "cancel"
        /\ last'.message = "Order does not belong to user")
          => /\ last'.status = "REJECTED"
             /\ UNCHANGED <<orderbooks, balances>>]_vars

\* the orders that were accepted and are cancelled or completely filled
ClosedIds ==
    {id \in 1..(next_order_id - 1) :
        id \notin DOMAIN rested \/ rested[id].fate # "resting"}

\* the reply to a Cancel request that found no order and changed nothing
NotFoundUnchanged(out) ==
    /\ ~out.success
    /\ out.status = "REJECTED"
    /\ out.message = "Order not found"
    /\ out.e = Engine

\* C15: a Cancel request for an order that was already cancelled or
\* completely filled, from whichever user, is rejected as not found and
\* changes no state.
ClosedOrderNotFound ==
    \A id \in ClosedIds : \A u \in Users \cup {"u3"} :
        NotFoundUnchanged(
            process_cancel_order(Engine,
                [user_id |-> u, order_id |-> id, market_id |-> "m1"]))

\* a Cancel request was answered not found when every accepted order was
\* cancelled or filled, one of them cancelled before and one filled
ClosedOrderWitness ==
    /\ last.kind = "cancel"
    /\ last.message = "Order not found"
    /\ ClosedIds = 1..(next_order_id - 1)
    /\ \E id \in DOMAIN rested : rested[id].fate = "cancelled"
    /\ \E id \in DOMAIN rested : rested[id].fate = "filled"

\* every (user, token) pair holds in `a` what it holds in `b`
SameBalances(a, b) ==
    \A u \in Users \cup {"u3"} : \A t \in Tokens :
        TokenBalanceOf(a, u, t) = TokenBalanceOf(b, u, t)

\* the balance requests the claims are checked with: small amounts and the
\* largest i64
AnyBalanceRequests ==
    [user_id : Users \cup {"u3"}, token_id : Tokens,
     amount : {1, MaxLedgerAmount, MaxLedgerAmount + 1, MaxI64}]

\* Deposit(u,t,x) immediately followed by Withdraw(u,t,x)
deposit_then_withdraw(e, req) ==
    process_withdrawal(process_deposit(e, req).e, req)

RoundTripRestores(out) ==
    /\ out.success
    /\ SameBalances(out.e.balances, balances)

\* C16: for every user u, token t and amount x > 0, Deposit(u,t,x)
\* immediately followed by Withdraw(u,t,x) succeeds and leaves every
\* (available, locked) pair equal to its value before the deposit.
DepositThenWithdrawRestores ==
    \A req \in AnyBalanceRequests :
        RoundTripRestores(deposit_then_withdraw(Engine, req))

\* a Withdraw of more than the available balance fails and changes nothing
RefusedUnchanged(out) ==
    /\ ~out.success
    /\ out.e = Engine

\* C17: a Withdraw whose amount exceeds the user's available balance of the
\* token, locked funds not counted, fails and leaves balances, books and
\* the snapshot counter unchanged.
OverdrawnWithdrawRefused ==
    \A req \in AnyBalanceRequests :
        req.amount > TokenBalanceOf(balances, req.user_id,
                                    req.token_id).available
          => RefusedUnchanged(process_withdrawal(Engine, req))

\* a Withdraw was refused although available plus locked covered its amount
OverdrawnWithdrawWitness ==
    /\ last.kind = "withdraw"
    /\ ~last.success
    /\ last.events = <<>>
    /\ TokenBalanceOf(balances, Unwrap(last.req).user_id,
                      Unwrap(last.req).token_id).available
         < Unwrap(last.req).amount
    /\ TokenBalanceOf(balances, Unwrap(last.req).user_id,
                      Unwrap(last.req).token_id).available
       + TokenBalanceOf(balances, Unwrap(last.req).user_id,
                        Unwrap(last.req).token_id).locked
         >= Unwrap(last.req).amount

\* the step handled the entry `id` of the request stream
Handles(id) ==
    /\ stream.current = None
    /\ stream'.current = Some(id)

\* C18: when a request with the same request_id is delivered to the engine
\* a second time, the second delivery changes no engine state beyond the
\* first application and yields the same reply as the first.
SecondDeliveryIsNoOp ==
    [][\A id \in 1..MaxStream :
          (/\ Handles(id)
           /\ stream.queue[id].request_id \in DOMAIN stream.replied)
            => /\ UNCHANGED engine
               /\ ReplyOf(last')
                    = stream.replied[stream.queue[id].request_id]]_vars

\* C19: every well-formed request appended to the request stream is
\* eventually applied by the engine, and never more than once, also when
\* the engine restarts after reading a batch and before acking its entries.
EveryRequestAppliedOnce ==
    /\ \A id \in 1..MaxStream :
          (Len(stream.queue) >= id) ~> (stream.applied[id] = 1)
    /\ [](\A id \in 1..MaxStream : stream.applied[id] <= 1)

\* C20: the engine acks a request only if every persistence event produced
\* by that request was appended to the persistence stream; an entry whose
\* events were lost stays pending.
AckOnlyAfterPersisted ==
    \A id \in stream.lost : id \notin stream.acked /\ id \in stream.pending

\* the step published a reply for entry `id` / acked entry `id`
Publishes(id) == stream'.published[id] # stream.published[id]

Acks(id) == id \in stream'.acked \ stream.acked

\* the entry is done: applied once, answered once with its own request_id,
\* acked
EntryDone(st, id) ==
    /\ st.applied[id] = 1
    /\ st.published[id] = <<st.queue[id].request_id>>
    /\ id \in st.acked

FirstDepthSeq(m) == IF m \in DOMAIN depth_seq THEN depth_seq[m] + 1 ELSE 1

\* the step published a depth message for market m
PublishesDepth(m) ==
    /\ m \in DOMAIN depth_seq'
    /\ m \notin DOMAIN depth_seq \/ depth_seq'[m] # depth_seq[m]

\* C22: for each market the seq values of the depth messages published on
\* its depth topic are strictly increasing in publication order, counting
\* the messages published before and after an engine restart.
DepthSeqIncreases ==
    [][\A m \in DOMAIN markets :
          (PublishesDepth(m) /\ m \in DOMAIN stream.depth_sent)
            => /\ FirstDepthSeq(m) > stream.depth_sent[m]
               /\ depth_seq'[m] >= FirstDepthSeq(m)]_vars

\* the order requests for market m2, well-formed or not
AnyOrderRequests ==
    [user_id : Users, market_id : {"m2"}, order_type : {"Buy", "Sell"},
     order_kind : {"Limit"}, price : {Some(p) : p \in 0..MaxPrice},
     quantity : 0..MaxQty]
    \cup [user_id : Users, market_id : {"m2"}, order_type : {"Buy", "Sell"},
          order_kind : {"Market"}, price : {None}, quantity : 0..MaxQty]

\* the price of a Limit order is not a positive multiple of tick_size, or
\* the quantity is not positive or is below min_order_size
OffGrid(req) ==
    \/ /\ req.order_kind = "Limit"
       /\ \/ Unwrap(req.price) <= 0
          \/ Unwrap(req.price) % markets[req.market_id].tick_size # 0
    \/ req.quantity <= 0
    \/ req.quantity < markets[req.market_id].min_order_size

RejectedUnchanged(out) ==
    /\ ~out.success
    /\ out.status = "REJECTED"
    /\ out.e = Engine

\* C23: a NewOrder is rejected with no state change when it is a Limit
\* order whose price is not a positive multiple of the market's tick_size,
\* or when its quantity is non-positive or below the market's
\* min_order_size.
OffGridOrderRejected ==
    \A req \in AnyOrderRequests :
        OffGrid(req)
          => RejectedUnchanged(process_order(Engine, req, next_order_id))

\* the Limit order requests that carry no price
PricelessLimitRequests ==
    [user_id : Users, market_id : {"m1"}, order_type : {"Buy", "Sell"},
     order_kind : {"Limit"}, price : {None}, quantity : Quantities]

\* C24: a Limit order that carries no price, Buy or Sell, receives a
\* REJECTED reply and changes no state: no funds are locked, no event is
\* emitted, and the engine keeps processing.
PricelessLimitRejected ==
    \A req \in PricelessLimitRequests :
        RejectedUnchanged(process_order(Engine, req, next_order_id))

\* the status the reply of an order with these quantities should carry
StatusFor(order) ==
    IF order.filled_quantity = order.quantity THEN "FILLED"
    ELSE IF order.filled_quantity > 0 THEN "PARTIALLY_FILLED"
    ELSE "PENDING"

\* C25: the reply to an accepted Limit order reports PENDING when nothing
\* was filled and the whole order rests, PARTIALLY_FILLED when
\* 0 < filled < quantity, and FILLED exactly when filled = quantity.
LimitReplyStatus ==
    [][(/\ last'.kind = "order"
        /\ last'.success
        /\ Unwrap(last'.req).order_kind = "Limit")
          => last'.status = StatusFor(Unwrap(last'.order))]_vars

\* C26: a settlement never takes less from locked than the trade costs the
\* buyer or than the quantity the seller sells: an order whose trades find
\* too little locked is not carried through
NeverSettlesShort ==
    \A req \in OrderRequests :
        process_order(Engine, req, next_order_id).e.short_settlements = 0

\* the deposit would push the available balance beyond the largest i64
WouldOverflow(req) ==
    TokenBalanceOf(balances, req.user_id, req.token_id).available
        + req.amount > MaxI64

\* C27: a Deposit whose amount would push the available balance of its
\* (user, token) beyond the i64 range is refused and leaves the engine as
\* it was; the stored balance never wraps around.
OverflowingDepositRefused ==
    \A req \in AnyBalanceRequests :
        WouldOverflow(req) =>
            RefusedUnchanged(process_deposit(Engine, req))

\* C28: after every applied request fewer than snapshot_interval accepted
\* requests (orders, cancels, deposits, withdrawals) have been applied since
\* the latest snapshot: the request that brings the count to
\* snapshot_interval takes the snapshot.
SnapshotEveryInterval ==
    last.changes_since_snapshot < snapshot_interval

\* C29: after a restart every order that rested in the snapshotted order
\* books rests in the books of the restarted engine.
RestartRestoresBooks ==
    last.kind = "restart" =>
        RestingOrders(stream.snapshot_books) \subseteq RestingOrders(orderbooks)

\* C30: applying a persistence event to the database a second time leaves
\* the database as it is after applying it once; a replayed trade_executed
\* event creates no second trade row.
PersistenceIdempotent ==
    \A update \in DBUpdateEvent :
        process_db_update(process_db_update(stream.database, update), update)
            = process_db_update(stream.database, update)

\* the price levels of a book side that hold no order
EmptyLevels(side) == {p \in DOMAIN side : side[p] = <<>>}

\* C31: after every applied request no price level of any book has an
\* empty queue: every price key of bids and asks holds a resting order.
NoEmptyLevel ==
    \A m \in DOMAIN orderbooks :
        /\ EmptyLevels(orderbooks[m].bids) = {}
        /\ EmptyLevels(orderbooks[m].asks) = {}

\* C32: a registry lookup that runs while the registry is refreshed never
\* reports a token or a market unknown that is active in the catalog before
\* and after the refresh (the tokens and market m1 are active throughout),
\* and a market it returns has both of its tokens in the token cache.
ConsistentLookup ==
    stream.registry.lookup # None =>
        /\ Unwrap(stream.registry.lookup).id \in Tokens \cup {"m1"}
              => Unwrap(stream.registry.lookup).found
        /\ Unwrap(stream.registry.lookup).found
              => Unwrap(stream.registry.lookup).tokens_cached

\* the (user, token) pairs the engine has made a balance_updated event for
UpdatedPairs ==
    {<<stream.db_emitted[i].user_id, stream.db_emitted[i].token_id>> :
        i \in {j \in DOMAIN stream.db_emitted :
                  stream.db_emitted[j].type = "balance_updated"}}

\* the balances table holds the engine's amounts of every updated pair
BalancesProjected ==
    \A pair \in UpdatedPairs :
        /\ pair \in DOMAIN stream.database.balances
        /\ stream.database.balances[pair] =
             [amount |-> TokenBalanceOf(balances, pair[1], pair[2]).available,
              locked_amount |->
                 TokenBalanceOf(balances, pair[1], pair[2]).locked]

\* C33: when the engine takes no more requests and the db-updater keeps
\* running (no transaction fails), the balances table eventually holds, for
\* every pair the engine has updated, the engine's available and locked
\* amounts, however the events were split into batches.
BalancesEventuallyProjected ==
    <>(stream.db_pc = "stopped") \/ <>[]BalancesProjected

\* C38: an entry is acked only after the transaction of its batch has
\* committed; when an update of the batch fails, the database and the
\* acked entries stay as they were before the batch and the batch is never
\* acked.
AckAfterCommit ==
    [][/\ stream'.db_acked \ stream.db_acked \subseteq stream.db_committed
       /\ (stream.db_pc = "transaction" /\ stream'.db_pc = "stopped")
            => /\ stream'.database = stream.database
               /\ stream'.db_acked = stream.db_acked
       /\ stream.db_pc = "stopped"
            => /\ stream'.db_acked = stream.db_acked
               /\ stream'.database = stream.database]_vars

\* a batch was committed and acked, the next batch failed
AckAfterCommitWitness ==
    /\ stream.db_pc = "stopped"
    /\ stream.db_acked # {}
    /\ Len(stream.db_batch) >= 2
    /\ stream.db_acked = stream.db_committed

\* order requests with a side tag or a kind tag the engine does not know
UnknownTagRequests ==
    [user_id : Users, market_id : {"m1"}, order_type : {"Buy", "Sell", "buy"},
     order_kind : {"Limit", "Stop"}, price : {Some(1)}, quantity : {1}]
    \ LimitRequests({1}, {1})

\* C34: a NewOrder whose side tag is neither "Buy" nor "Sell", or whose kind
\* tag is neither "Market" nor "Limit", is rejected with no state change.
UnknownTagRejected ==
    \A req \in UnknownTagRequests :
        RejectedUnchanged(process_order(Engine, req, next_order_id))

\* what the resting orders of one user and side must have locked: the
\* remaining quantity of the Sell orders, the notional of the remaining
\* quantity of the Buy orders
Obligation(books, u, order_type) ==
    SumOver({o \in RestingOrders(books) :
                o.user_id = u /\ o.order_type = order_type},
            [o \in RestingOrders(books) |->
                IF order_type = "Sell" THEN Remaining(o)
                ELSE Unwrap(o.price) * Remaining(o)])

\* C35: after every applied request, for each user the locked base is at
\* least the sum of the remaining quantities of the user's resting Sell
\* orders and the locked quote is at least the sum of the notionals of the
\* user's resting Buy orders.
RestingOrdersCollateralised ==
    \A u \in Users :
        /\ TokenBalanceOf(balances, u, "BASE").locked
              >= Obligation(orderbooks, u, "Sell")
        /\ TokenBalanceOf(balances, u, "QUOTE").locked
              >= Obligation(orderbooks, u, "Buy")

\* the engine under orders and cancels, with the history of every event it
\* made for db_update_queue
SpecEvents ==
    /\ InitWith(LoadedQuote, LoadedBase)
    /\ [][\/ \E req \in LimitRequests(Prices, Quantities) :
                /\ next_order_id <= MaxEventOrders
                /\ OrderDone(req, process_order(Engine, req, next_order_id))
                /\ stream' = [stream EXCEPT !.db_emitted = @ \o last'.events]
          \/ \E req \in CancelRequests(MaxEventOrders) :
                /\ req.order_id < next_order_id
                /\ CancelDone(req, process_cancel_order(Engine, req))
                /\ stream' = [stream EXCEPT !.db_emitted = @ \o last'.events]
        ]_vars

\* the order_created and order_updated events of one order, oldest first
OrderEventsOf(id) ==
    SelectSeq(stream.db_emitted,
              LAMBDA ev : ev.type \in {"order_created", "order_updated"}
                          /\ ev.id = id)

\* the sum of the quantities of the trades that reference the order
TradedOf(id) ==
    SumOver({i \in DOMAIN stream.db_emitted :
                /\ stream.db_emitted[i].type = "trade_executed"
                /\ id \in {stream.db_emitted[i].trade.buyer_order_id,
                            stream.db_emitted[i].trade.seller_order_id}},
            [i \in DOMAIN stream.db_emitted |->
                stream.db_emitted[i].trade.quantity])

\* C36: every order_created and order_updated event of an order carries the
\* quantity the order was admitted with (the quantity of its order_created
\* event, made before the matching), and the filled_quantity of the order's
\* most recent event is the sum of the quantities of the trades that
\* reference the order.
EventsCarryAdmittedOrder ==
    \A id \in 1..MaxEventOrders :
        LET evs == OrderEventsOf(id) IN
        evs # <<>> =>
            /\ \A i \in DOMAIN evs : evs[i].quantity = evs[1].quantity
            /\ evs[Len(evs)].filled_quantity = TradedOf(id)

\* the resting orders of one side of a market that have open quantity
OpenOrders(m, order_type) ==
    {o \in BookOrders(orderbooks[m]) :
        o.order_type = order_type /\ Remaining(o) > 0}

\* C37: the book is never crossed: in every market where both sides hold
\* resting orders, the highest bid price with open quantity is strictly
\* lower than the lowest ask price with open quantity.
BookNeverCrossed ==
    \A m \in DOMAIN orderbooks :
        \A bid \in OpenOrders(m, "Buy"), ask \in OpenOrders(m, "Sell") :
            Unwrap(bid.price) < Unwrap(ask.price)

\* a Limit order traded, its remainder rests, and both sides hold orders
BookNeverCrossedWitness ==
    /\ last.kind = "order" /\ last.success
    /\ last.trades # <<>>
    /\ Unwrap(last.order).order_kind = "Limit"
    /\ Unwrap(last.order).id \in RestingIds(orderbooks)
    /\ OpenOrders("m1", "Buy") # {}
    /\ OpenOrders("m1", "Sell") # {}

\* ------------------------------------------------ send_and_wait of the API
\* the replies published on engine_response:<request_id> so far
published_on(st, request_id) ==
    Cardinality({i \in DOMAIN st.queue :
                    /\ st.queue[i].request_id = request_id
                    /\ st.published[i] # <<>>})

\* a variant of send_and_wait that appends the request before it subscribes
send_and_wait_queue_first(st, message, ok, timed_out) ==
    IF message.request_id \notin DOMAIN st.calls
    THEN IF ok /\ Len(st.queue) < MaxStream
         THEN [st EXCEPT !.queue = Append(@, message),
                         !.calls = Put(@, message.request_id,
                                       [pc |-> "queued", missed |-> 0])]
         ELSE [st EXCEPT !.calls = Put(@, message.request_id,
                                       [pc |-> "error", missed |-> 0])]
    ELSE IF st.calls[message.request_id].pc = "queued"
    THEN [st EXCEPT !.calls[message.request_id] =
            IF ok
            THEN [pc |-> "waiting",
                  missed |-> published_on(st, message.request_id)]
            ELSE [pc |-> "error", missed |-> 0]]
    ELSE IF st.calls[message.request_id].pc = "waiting"
    THEN IF timed_out
         THEN [st EXCEPT !.calls[message.request_id].pc = "timeout"]
         ELSE IF published_on(st, message.request_id)
                   > st.calls[message.request_id].missed
         THEN [st EXCEPT !.calls[message.request_id].pc = "success"]
         ELSE st
    ELSE st

\* send_and_wait, one step of one call: step 1 subscribes to
\* engine_response:<request_id> (a subscriber gets the messages published
\* after the subscription: `missed` counts the earlier ones), step 2 is the
\* XADD of queue_message_internal, step 3 takes the first message of the
\* subscription unless the timeout elapses; a failed step 1 or 2 ends the
\* call with an Error
send_and_wait(st, message, ok, timed_out) ==
    IF message.request_id \notin DOMAIN st.calls
    THEN [st EXCEPT !.calls =
            Put(@, message.request_id,
                IF ok
                THEN [pc |-> "subscribed",
                      missed |-> published_on(st, message.request_id)]
                ELSE [pc |-> "error", missed |-> 0])]
    ELSE IF st.calls[message.request_id].pc = "subscribed"
    THEN IF ok /\ Len(st.queue) < MaxStream
         THEN [st EXCEPT !.queue = Append(@, message),
                         !.calls[message.request_id].pc = "waiting"]
         ELSE [st EXCEPT !.calls[message.request_id].pc = "error"]
    ELSE IF st.calls[message.request_id].pc = "waiting"
    THEN IF timed_out
         THEN [st EXCEPT !.calls[message.request_id].pc = "timeout"]
         ELSE IF published_on(st, message.request_id)
                   > st.calls[message.request_id].missed
         THEN [st EXCEPT !.calls[message.request_id].pc = "success"]
         ELSE st
    ELSE st

\* the calls of the API, every one with a request_id of its own, and the
\* loop of the engine
SpecApi ==
    /\ InitStream
    /\ [][\/ \E message \in StreamMessages, ok \in BOOLEAN,
                 timed_out \in BOOLEAN :
                /\ stream' = send_and_wait(stream, message, ok, timed_out)
                /\ UNCHANGED <<engine, next_order_id, net_deposited, rested,
                               last>>
          \/ consume_messages
          \/ process_message
          \/ send_unified_response
          \/ ack_message]_vars

register_client(um) ==
    [um EXCEPT !.clients = @ \cup {um.next_client},
               !.client_subs = Put(@, um.next_client, {}),
               !.next_client = @ + 1]

\* a variant of unregister_client that leaves subs_index alone
unregister_client_keeps_index(um, id) ==
    [um EXCEPT
       !.client_subs = [c \in DOMAIN @ \ {id} |-> @[c]],
       !.clients = @ \ {id}]

\* unregister_client: the client's set is removed, the client is taken out
\* of the index set of each of its subscriptions, index sets that became
\* empty are removed, the sender is removed
unregister_client(um, id) ==
    [um EXCEPT
       !.subs_index =
          IF id \in DOMAIN um.client_subs
          THEN [sub \in {k \in DOMAIN @ :
                            ~(k \in um.client_subs[id] /\ @[k] \ {id} = {})}
                  |-> IF sub \in um.client_subs[id] THEN @[sub] \ {id}
                      ELSE @[sub]]
          ELSE @,
       !.client_subs = [c \in DOMAIN @ \ {id} |-> @[c]],
       !.clients = @ \ {id}]

\* subscribe: `if let Some(set) = client_subs.get_mut(&id)` guards the
\* client's set only; `subs_index.entry(sub).or_default().insert(id)` runs
\* for every id
subscribe(um, id, sub) ==
    [um EXCEPT
       !.client_subs = IF id \in DOMAIN @
                       THEN [@ EXCEPT ![id] = @ \cup {sub}] ELSE @,
       !.subs_index = Put(@, sub, (IF sub \in DOMAIN @ THEN @[sub] ELSE {})
                                     \cup {id})]

unsubscribe(um, id, sub) ==
    [um EXCEPT
       !.client_subs = IF id \in DOMAIN @
                       THEN [@ EXCEPT ![id] = @ \ {sub}] ELSE @,
       !.subs_index = IF sub \notin DOMAIN @ THEN @
                      ELSE IF @[sub] \ {id} = {}
                      THEN [k \in DOMAIN @ \ {sub} |-> @[k]]
                      ELSE [@ EXCEPT ![sub] = @ \ {id}]]

\* broadcast: the clients the message is sent to
broadcast(um, sub) ==
    IF sub \in DOMAIN um.subs_index
    THEN {id \in um.subs_index[sub] : id \in um.clients}
    ELSE {}

\* client_socket: a connection registers, its reader subscribes and
\* unsubscribes while the client is registered, the cleanup unregisters;
\* unsubscribe and unregister_client are also called for ids that are gone
SpecWs ==
    /\ InitLedger
    /\ [][\/ /\ stream.users.next_client <= MaxClients
             /\ stream' = [stream EXCEPT !.users = register_client(@)]
             /\ UNCHANGED <<engine, next_order_id, net_deposited, rested,
                            last>>
          \/ \E id \in stream.users.clients :
                \E sub \in {"Depth", "Ticker"} \X {"m1"} :
                   /\ stream' = [stream EXCEPT
                                   !.users = subscribe(@, id, sub)]
                   /\ UNCHANGED <<engine, next_order_id, net_deposited,
                                  rested, last>>
          \/ \E id \in 1..MaxClients :
                \E sub \in {"Depth", "Ticker"} \X {"m1"} :
                   /\ stream' = [stream EXCEPT
                                   !.users = unsubscribe(@, id, sub)]
                   /\ UNCHANGED <<engine, next_order_id, net_deposited,
                                  rested, last>>
          \/ \E id \in 1..MaxClients :
                /\ stream' = [stream EXCEPT
                                !.users = unregister_client(@, id)]
                /\ UNCHANGED <<engine, next_order_id, net_deposited, rested,
                               last>>
        ]_vars

\* C40: the two indexes of the UserManager agree: a client id is in
\* subs_index[sub] exactly when sub is in client_subs[id], subs_index holds
\* no empty set, a client that is not registered appears in neither index,
\* and broadcast reaches exactly the currently subscribed clients.
IndexesAgree ==
    /\ \A id \in 1..MaxClients, sub \in {"Depth", "Ticker"} \X {"m1"} :
          /\ (sub \in DOMAIN stream.users.subs_index
               /\ id \in stream.users.subs_index[sub])
              <=> (id \in DOMAIN stream.users.client_subs
                   /\ sub \in stream.users.client_subs[id])
          /\ id \in broadcast(stream.users, sub)
              <=> (id \in stream.users.clients
                   /\ id \in DOMAIN stream.users.client_subs
                   /\ sub \in stream.users.client_subs[id])
    /\ \A sub \in DOMAIN stream.users.subs_index :
          stream.users.subs_index[sub] # {}
    /\ DOMAIN stream.users.client_subs = stream.users.clients

\* a client is gone, a subscription of the others is still indexed and
\* another subscription has no index set
IndexesAgreeWitness ==
    /\ \E id \in 1..MaxClients :
          id < stream.users.next_client /\ id \notin stream.users.clients
    /\ \E sub \in DOMAIN stream.users.subs_index :
          Cardinality(stream.users.subs_index[sub]) = 2
    /\ DOMAIN stream.users.subs_index # {"Depth", "Ticker"} \X {"m1"}

====
